---------------------------- MODULE Spec2Model ----------------------------
(***************************************************************************)
(* MedLink backend (src/main.py, src/database.py): the hospital scorer and *)
(* the allocate_emergency handler with its two webhook calls; the patient  *)
(* handlers identify_patient and register_patient.                         *)
(*                                                                         *)
(* Numbers.  The code computes with floats; the model computes with        *)
(* integers in fixed point:                                                *)
(*   - a distance is in units of 0.01 km (502 is 5.02 km);                 *)
(*   - a score is in units of 0.01 point (5992 is 59.92 points);           *)
(*   - a latitude is the arc length along the meridian of the patient, in  *)
(*     units of 0.01 km, and every point of the model has longitude 0.     *)
(*     For two points of one meridian the haversine formula of             *)
(*     calculate_distance gives R * |lat2 - lat1| (radians), that is the   *)
(*     difference of the two arc lengths.                                  *)
(* Every latitude of the model is an even number, so that no distance is   *)
(* a tie of round(distance, 1).                                            *)
(***************************************************************************)
EXTENDS Integers, Sequences, FiniteSets, TLC

VARIABLES
    donor_alert_json,      \* the file donor-alert.json beside main.py
    DONOR_ALERT_CONFIG,    \* module global, main.py:44
    patients_db,           \* table patients (database.py:38), ordered by id
    hospitals_db,          \* table hospitals (database.py:25), ordered by id
    PATIENTS_LEGACY,       \* in-memory patient list, main.py:469
    patients_face_descriptor,   \* column face_descriptor of table patients, by id
    PATIENT_DESCRIPTORS_LEGACY, \* in-memory descriptor map, main.py:729
    pc,                    \* position of the server / of the request handled
    req,                   \* AllocationRequest being handled
    patient,               \* local of allocate_emergency
    hospitals,             \* local: the list that is scored, in store order
    scored_hospitals,      \* local: after the sort
    best,                  \* local: scored_hospitals[0]
    stock,                 \* local
    blood_available,       \* local
    donors_alerted,        \* local
    eta_minutes,           \* local
    emergency_notified,    \* local
    hospitals_notified,    \* local
    posts,                 \* requests.post calls of this request, in order
    response,              \* what the handler returned (or raised)
    matches,               \* local of identify_patient, after the sort
    score_call,            \* one direct call of score_hospital, with its result
    register_calls         \* register_patient calls running in pool threads

vars == <<donor_alert_json, DONOR_ALERT_CONFIG, patients_db, hospitals_db,
          PATIENTS_LEGACY, patients_face_descriptor, PATIENT_DESCRIPTORS_LEGACY,
          pc, req, patient, hospitals, scored_hospitals, best,
          stock, blood_available, donors_alerted, eta_minutes,
          emergency_notified, hospitals_notified, posts, response, matches,
          score_call, register_calls>>

store_vars == <<donor_alert_json, DONOR_ALERT_CONFIG, patients_db,
                hospitals_db, PATIENTS_LEGACY, patients_face_descriptor,
                PATIENT_DESCRIPTORS_LEGACY>>

handler_vars == <<pc, req, patient, hospitals, scored_hospitals, best, stock,
                  blood_available, donors_alerted, eta_minutes,
                  emergency_notified, hospitals_notified, posts, response,
                  matches>>

-----------------------------------------------------------------------------
(* Python values *)

\* Python's None, among strings.
None == "<None>"

\* dict.get(key, default)
Get(d, key, default) == IF key \in DOMAIN d THEN d[key] ELSE default

\* {}
EmptyDict == [k \in {} |-> 0]

\* truth value of a string or None
Truthy(s) == s # None /\ s # ""

Min(a, b) == IF a <= b THEN a ELSE b

Max(a, b) == IF a >= b THEN a ELSE b

Abs(a) == IF a >= 0 THEN a ELSE -a

\* floor(a / b) for b > 0 and any integer a
FloorDiv(a, b) == IF a >= 0 THEN a \div b ELSE -((-a + b - 1) \div b)

\* round(x, 1) of a value in hundredths, in tenths: to the nearest tenth, a
\* tie to the even tenth (Python rounds half to even).
Round1(x) ==
    LET lo == FloorDiv(x, 10)
        r  == x - lo * 10
    IN  IF r < 5 THEN lo
        ELSE IF r > 5 THEN lo + 1
        ELSE IF lo % 2 = 0 THEN lo ELSE lo + 1

-----------------------------------------------------------------------------
(* calculate_distance and score_hospital *)

\* Haversine distance, for two points of one meridian (see the head of the
\* module): R * c with c = |lat2 - lat1| in radians.
calculate_distance(lat1, lon1, lat2, lon2) == Abs(lat2 - lat1)

\* 1. DISTANCE
distance_points(distance) ==
    IF distance <= 200 THEN 20000 - distance * 30
    ELSE IF distance <= 500 THEN 15000 - distance * 20
    ELSE IF distance <= 1000 THEN 10000 - distance * 8
    ELSE IF distance <= 2000 THEN 5000 - distance * 2
    ELSE Max(0, 3000 - distance)

bed_points_off_by_one(icu_beds_available) ==
    IF icu_beds_available > 1
    THEN Min(icu_beds_available * 5, 50) * 100
    ELSE -10000

\* 2. AVAILABLE ICU BEDS
bed_points(icu_beds_available) ==
    IF icu_beds_available > 0
    THEN Min(icu_beds_available * 5, 50) * 100
    ELSE -10000

\* 3. BED CAPACITY PERCENTAGE: (available / total) * 100 against 50, 30, 10
capacity_points(icu_beds_available, icu_beds_total) ==
    IF icu_beds_total > 0
    THEN IF icu_beds_available * 100 >= 50 * icu_beds_total THEN 3000
         ELSE IF icu_beds_available * 100 >= 30 * icu_beds_total THEN 1500
         ELSE IF icu_beds_available * 100 >= 10 * icu_beds_total THEN 500
         ELSE -2000
    ELSE 0

\* 4. DOCTOR AVAILABILITY
doctor_availability_score(has_trauma, icu_beds_total, severity) ==
    LET trauma == IF has_trauma THEN 2000 ELSE 0
        size   == IF icu_beds_total >= 15 THEN 1500
                  ELSE IF icu_beds_total >= 10 THEN 1000
                  ELSE IF icu_beds_total >= 5 THEN 500
                  ELSE 0
    IN  IF severity = "critical" THEN (trauma + size) * 2 ELSE trauma + size

\* 5. BLOOD AVAILABILITY
blood_points(blood_stock, patient_blood_type, needs_blood) ==
    IF needs_blood /\ Truthy(patient_blood_type)
       /\ patient_blood_type \in DOMAIN blood_stock
    THEN LET blood_amount == blood_stock[patient_blood_type]
         IN  IF blood_amount >= 5 THEN 4000
             ELSE IF blood_amount >= 2 THEN 2500
             ELSE IF blood_amount >= 1 THEN 1000
             ELSE -3000
    ELSE 0

\* 6. TRAUMA CENTER BONUS
trauma_points(has_trauma, severity) ==
    IF severity = "critical" /\ has_trauma THEN 3500
    ELSE IF severity = "urgent" /\ has_trauma THEN 1500
    ELSE 0

\* 7. Final adjustments based on severity
critical_points(distance, icu_beds_available, severity) ==
    IF severity = "critical"
    THEN (IF distance <= 500 THEN 2000 ELSE 0)
         + (IF icu_beds_available >= 5 THEN 1500 ELSE 0)
    ELSE 0

score_hospital(hospital, patient_lat, patient_lon, patient_blood_type, severity, needs_blood) ==
    LET hospital_lat == Get(hospital, "latitude", 0)
        hospital_lon == Get(hospital, "longitude", 0)
        distance == calculate_distance(patient_lat, patient_lon,
                                       hospital_lat, hospital_lon)
        icu_beds_available == Get(hospital, "icu_beds_available", 0)
        icu_beds_total == Get(hospital, "icu_beds_total", 1)
        has_trauma == Get(hospital, "has_trauma", FALSE)
        blood_stock == Get(hospital, "blood_stock", EmptyDict)
    IN  [score |->
             distance_points(distance)
             + bed_points(icu_beds_available)
             + capacity_points(icu_beds_available, icu_beds_total)
             + doctor_availability_score(has_trauma, icu_beds_total, severity)
             + blood_points(blood_stock, patient_blood_type, needs_blood)
             + trauma_points(has_trauma, severity)
             + critical_points(distance, icu_beds_available, severity),
         distance |-> distance]

-----------------------------------------------------------------------------
(* Data *)

Severities == {"critical", "urgent", "mild"}

Hospital(id, name, lat, avail, total, trauma, blood) ==
    [id |-> id, name |-> name, latitude |-> lat, longitude |-> 0,
     icu_beds_available |-> avail, icu_beds_total |-> total,
     has_trauma |-> trauma, blood_stock |-> blood]

\* A dict without one of its keys.
Without(d, key) == [k \in DOMAIN d \ {key} |-> d[k]]

\* The fifteen in-memory hospitals.  A latitude is the hospital's distance
\* from the default request location (25.1972, 55.2796) as the code's
\* haversine gives it, to the nearest 0.02 km, north (+) or south (-).
HOSPITALS_LEGACY ==
    <<  Hospital("1", "Rashid Hospital", 814, 12, 20, TRUE,
                 "O+" :> 8 @@ "O-" :> 3 @@ "A+" :> 5 @@ "B+" :> 4 @@ "AB+" :> 2),
        Hospital("2", "Dubai Hospital", 936, 8, 15, TRUE,
                 "O+" :> 6 @@ "O-" :> 2 @@ "A+" :> 7 @@ "B+" :> 3 @@ "AB+" :> 1),
        Hospital("3", "American Hospital Dubai", -506, 10, 12, FALSE,
                 "O+" :> 10 @@ "O-" :> 5 @@ "A+" :> 8 @@ "B+" :> 6 @@ "AB+" :> 3),
        Hospital("4", "Saudi German Hospital Dubai", -1704, 5, 18, TRUE,
                 "O+" :> 4 @@ "O-" :> 1 @@ "A+" :> 3 @@ "B+" :> 2 @@ "AB+" :> 1),
        Hospital("5", "Mediclinic City Hospital", -128, 7, 10, FALSE,
                 "O+" :> 9 @@ "O-" :> 4 @@ "A+" :> 6 @@ "B+" :> 5 @@ "AB+" :> 2),
        Hospital("6", "Al Jalila Childrens Specialty Hospital", 122, 15, 25, TRUE,
                 "O+" :> 12 @@ "O-" :> 6 @@ "A+" :> 10 @@ "B+" :> 8 @@ "AB+" :> 4),
        Hospital("7", "Mediclinic Welcare Hospital", 152, 9, 14, FALSE,
                 "O+" :> 11 @@ "O-" :> 5 @@ "A+" :> 9 @@ "B+" :> 7 @@ "AB+" :> 3),
        Hospital("8", "Mediclinic Parkview Hospital", 246, 6, 12, FALSE,
                 "O+" :> 8 @@ "O-" :> 3 @@ "A+" :> 7 @@ "B+" :> 5 @@ "AB+" :> 2),
        Hospital("9", "NMC Royal Hospital", 62, 11, 16, TRUE,
                 "O+" :> 13 @@ "O-" :> 7 @@ "A+" :> 11 @@ "B+" :> 9 @@ "AB+" :> 5),
        Hospital("10", "Emirates Hospital", 326, 8, 13, FALSE,
                 "O+" :> 10 @@ "O-" :> 4 @@ "A+" :> 8 @@ "B+" :> 6 @@ "AB+" :> 3),
        Hospital("11", "Dubai London Clinic", 570, 4, 8, FALSE,
                 "O+" :> 7 @@ "O-" :> 2 @@ "A+" :> 6 @@ "B+" :> 4 @@ "AB+" :> 2),
        Hospital("12", "Zulekha Hospital", 554, 5, 10, FALSE,
                 "O+" :> 9 @@ "O-" :> 3 @@ "A+" :> 7 @@ "B+" :> 5 @@ "AB+" :> 2),
        Hospital("13", "Mediclinic Meadows", -314, 7, 11, FALSE,
                 "O+" :> 8 @@ "O-" :> 3 @@ "A+" :> 6 @@ "B+" :> 5 @@ "AB+" :> 2),
        Hospital("14", "Mediclinic Arabian Ranches", -1702, 3, 6, FALSE,
                 "O+" :> 5 @@ "O-" :> 2 @@ "A+" :> 4 @@ "B+" :> 3 @@ "AB+" :> 1),
        Hospital("15", "Aster Hospital Mankhool", 628, 6, 9, FALSE,
                 "O+" :> 7 @@ "O-" :> 3 @@ "A+" :> 6 @@ "B+" :> 4 @@ "AB+" :> 2) >>

-----------------------------------------------------------------------------
(* The scorer called directly: the inputs of one call of score_hospital *)

\* Largest icu_beds_available of a hospital passed to a direct call.
MaxBeds == 10

\* Hospital latitudes of a direct call: inside each distance band, on each
\* band boundary (2, 5, 10, 20 km) and 0.02 km beyond it.
ScoreLats == {0, 100, 200, 202, 500, 502, 1000, 1002, 2000, 2002, 2600, 3400}

ScoreTotals == {0, 4, 10, 20}

ScoreStocks == { EmptyDict, "B+" :> 0, "B+" :> 1, "B+" :> 2, "B+" :> 5 }

ScoreBloodTypes == {"B+", "AB-", ""}

\* The hospital dicts of a direct call: every field present, or
\* icu_beds_total absent.
ScoreHospitals ==
    LET full == { Hospital("1", "H", lat, avail, total, trauma, blood) :
                    lat \in ScoreLats, avail \in 0..MaxBeds,
                    total \in ScoreTotals, trauma \in BOOLEAN,
                    blood \in ScoreStocks }
    IN  full \cup { Without(h, "icu_beds_total") : h \in full }

ScoreCall ==
    /\ ~score_call.called
    /\ \E hospital \in ScoreHospitals, patient_blood_type \in ScoreBloodTypes,
          severity \in Severities, needs_blood \in BOOLEAN :
          score_call' =
              [called |-> TRUE, hospital |-> hospital, patient_lat |-> 0,
               patient_lon |-> 0, patient_blood_type |-> patient_blood_type,
               severity |-> severity, needs_blood |-> needs_blood,
               result |-> score_hospital(hospital, 0, 0, patient_blood_type,
                                         severity, needs_blood)]
    /\ UNCHANGED <<store_vars, handler_vars, register_calls>>

-----------------------------------------------------------------------------
(* Stores and startup *)

\* str(n) of the ids the model uses
StrTable == <<"1", "2", "3", "4", "5", "6", "7", "8", "9">>

Str(n) == StrTable[n]

ParseError == -1

\* int(s): the number, or ParseError where int raises ValueError
ParseInt(s) ==
    IF \E n \in 1..Len(StrTable) : StrTable[n] = s
    THEN CHOOSE n \in 1..Len(StrTable) : StrTable[n] = s
    ELSE ParseError

PatientDict(id, name, age, blood_type) ==
    [id |-> id, name |-> name, age |-> age, blood_type |-> blood_type]

\* The six in-memory patients (photo and medical_history left out).
PATIENTS_LEGACY_SEED ==
    << PatientDict("1", "Rajesh Kumar", 32, "B+"),
       PatientDict("2", "Fatima Ali", 45, "O+"),
       PatientDict("3", "John Smith", 28, "A+"),
       PatientDict("4", "Demo Patient", 30, "O+"),
       PatientDict("5", "Ahmad Hassan", 42, "O+"),
       PatientDict("6", "Priya Sharma", 38, "B+") >>

\* seed_initial_data: the rows of an empty patients table
patients_data ==
    << PatientDict(1, "Rajesh Kumar", 32, "B+"),
       PatientDict(2, "Fatima Ali", 45, "O+"),
       PatientDict(3, "John Smith", 28, "A+"),
       PatientDict(4, "Demo Patient", 30, "O+") >>

\* seed_initial_data: the rows of an empty hospitals table (the places of
\* the first five in-memory hospitals)
hospitals_data ==
    << Hospital(1, "Rashid Hospital", 814, 12, 20, TRUE,
                "O+" :> 8 @@ "O-" :> 3 @@ "A+" :> 5 @@ "B+" :> 4 @@ "AB+" :> 2),
       Hospital(2, "Dubai Hospital", 936, 8, 15, TRUE,
                "O+" :> 6 @@ "O-" :> 2 @@ "A+" :> 7 @@ "B+" :> 3 @@ "AB+" :> 1),
       Hospital(3, "American Hospital", -506, 10, 12, FALSE,
                "O+" :> 10 @@ "O-" :> 5 @@ "A+" :> 8 @@ "B+" :> 6 @@ "AB+" :> 3),
       Hospital(4, "Saudi German Hospital", -1704, 5, 18, TRUE,
                "O+" :> 4 @@ "O-" :> 1 @@ "A+" :> 3 @@ "B+" :> 2 @@ "AB+" :> 1),
       Hospital(5, "Mediclinic City", -128, 7, 10, FALSE,
                "O+" :> 9 @@ "O-" :> 4 @@ "A+" :> 6 @@ "B+" :> 5 @@ "AB+" :> 2) >>

seed_initial_data_hospitals(rows) == IF Len(rows) = 0 THEN hospitals_data ELSE rows

seed_initial_data_patients(rows) == IF Len(rows) = 0 THEN patients_data ELSE rows

-----------------------------------------------------------------------------
(* Face descriptors *)

\* A JSON value in the place of a face descriptor.  A list of floats is
\* held as its length, its first component (in units of 0.01) and its
\* other components by name: tail 0 is the zero tail (a list whose
\* components after the first are all 0.0), tail n >= 1 the tail of the
\* list generate_demo_descriptor gives for patient id n.
Descriptor(len, first, tail) ==
    [kind |-> "list", len |-> len, first |-> first, tail |-> tail]

\* null, or no key "face_descriptor"
NoDescriptor == [kind |-> "None", len |-> 0, first |-> 0, tail |-> 0]

\* a non-empty JSON string
StringDescriptor == [kind |-> "str", len |-> 3, first |-> 0, tail |-> 0]

\* a JSON number other than 0
NumberDescriptor == [kind |-> "number", len |-> 0, first |-> 0, tail |-> 0]

\* isinstance(desc, (list, tuple))
IsList(desc) == desc.kind = "list"

\* bool(desc): None and the empty list are falsy
TruthyDescriptor(desc) == desc.kind # "None" /\ ~(desc.kind = "list" /\ desc.len = 0)

\* First component, in units of 0.01, of np.random.seed(n * 12345);
\* np.random.randn(128), for n = 1..9 (MT19937, legacy polar gauss).
GenFirst ==
    <<-20, -17, -23, -32, 189, -12, 3, 38, 78>>

\* Dot products of the components 2..128 of the same nine lists, in units
\* of 0.0001.
GenTailDot ==
    << <<1318939, -99352, -151014, -95433, 167884, -164626, 96636, -49020, 58411>>,
       <<-99352, 1075558, -36544, 80829, 182147, -38852, 60890, 52995, 180661>>,
       <<-151014, -36544, 910021, 172539, 91018, 18401, -29198, -63697, 86876>>,
       <<-95433, 80829, 172539, 1201353, -166566, -15842, 79835, -4322, -29062>>,
       <<167884, 182147, 91018, -166566, 1565085, 132441, 192165, -168099, 223683>>,
       <<-164626, -38852, 18401, -15842, 132441, 1162777, 180432, -71445, -72377>>,
       <<96636, 60890, -29198, 79835, 192165, 180432, 1184794, 177270, 8138>>,
       <<-49020, 52995, -63697, -4322, -168099, -71445, 177270, 1301904, -38791>>,
       <<58411, 180661, 86876, -29062, 223683, -72377, 8138, -38791, 1253477>> >>

TailDot(t1, t2) == IF t1 = 0 \/ t2 = 0 THEN 0 ELSE GenTailDot[t1][t2]

\* generate_demo_descriptor(patient_id) for the ids the stores assign
\* ("1" .. "9"): the seed is int(patient_id) * 12345.
generate_demo_descriptor(patient_id) ==
    LET patient_id_int == ParseInt(patient_id)
    IN  Descriptor(128, GenFirst[patient_id_int], patient_id_int)

RECURSIVE SqrtFrom(_, _)
SqrtFrom(n, x) ==
    LET y == (x + n \div x) \div 2
    IN  IF y >= x THEN x ELSE SqrtFrom(n, y)

\* The square root, to the nearest unit.
Sqrt(n) ==
    IF n = 0 THEN 0
    ELSE LET fl == SqrtFrom(n, n)
         IN  IF n - fl * fl > fl THEN fl + 1 ELSE fl

\* calculate_face_distance for two lists of 128 floats: the norm of the
\* difference, in units of 0.01.
calculate_face_distance(descriptor1, descriptor2) ==
    Sqrt((descriptor1.first - descriptor2.first) * (descriptor1.first - descriptor2.first)
         + TailDot(descriptor1.tail, descriptor1.tail)
         + TailDot(descriptor2.tail, descriptor2.tail)
         - 2 * TailDot(descriptor1.tail, descriptor2.tail))

\* The descriptors of the rows of seed_initial_data, by row id.
seed_initial_data_descriptors(rows, column) ==
    IF Len(rows) = 0
    THEN [id \in {patients_data[i].id : i \in 1..Len(patients_data)} |->
             generate_demo_descriptor(Str(id))]
    ELSE column

\* PATIENT_DESCRIPTORS_LEGACY as the module fills it at import
PATIENT_DESCRIPTORS_LEGACY_SEED ==
    [id \in {PATIENTS_LEGACY_SEED[i].id : i \in 1..Len(PATIENTS_LEGACY_SEED)} |->
        generate_demo_descriptor(id)]

\* A workflow file: a JSON object with its "nodes" (a node's jsCode is the
\* set of the words the code looks for in it), or a JSON array.
WorkflowObject(nodes) == [json_type |-> "object", nodes |-> nodes]

WorkflowNode(type, jsCode) == [type |-> type, jsCode |-> jsCode]

DonorAlertFiles ==
    { [exists |-> FALSE, parses |-> FALSE, json |-> EmptyDict],
      [exists |-> TRUE, parses |-> TRUE,
       json |-> WorkflowObject(<< WorkflowNode("n8n-nodes-base.webhook", {}),
                                  WorkflowNode("n8n-nodes-base.code",
                                               {"donors_notified", "donors"}) >>)],
      [exists |-> TRUE, parses |-> TRUE,
       json |-> WorkflowObject(<< WorkflowNode("n8n-nodes-base.webhook", {}) >>)],
      [exists |-> TRUE, parses |-> TRUE,
       json |-> [json_type |-> "array", nodes |-> <<>>]] }

\* load_donor_alert_config: the new value of DONOR_ALERT_CONFIG.  None is
\* the empty dict here: the code only tests the truth value of a config.
load_donor_alert_config(file, old) ==
    IF file.exists /\ file.parses THEN file.json ELSE old

\* extract_donor_alert_response; None is the empty dict here: the callers
\* only test the truth value of the result.
extract_donor_alert_response(workflow_config, input_data) ==
    LET blood_type == Get(input_data, "blood_type", "O+")
        hospital_name == Get(input_data, "hospital_name", "Hospital")
        reply == [donors_notified |-> 3,
                  donors |-> << [name |-> "Ahmed", distance |-> 23, blood_type |-> blood_type],
                                [name |-> "Sara", distance |-> 41, blood_type |-> blood_type],
                                [name |-> "John", distance |-> 58, blood_type |-> blood_type] >>,
                  blood_type |-> blood_type,
                  hospital_name |-> hospital_name]
        code_node_found ==
            \E i \in 1..Len(workflow_config.nodes) :
                /\ workflow_config.nodes[i].type = "n8n-nodes-base.code"
                /\ workflow_config.nodes[i].jsCode \cap {"donors_notified", "donors"} # {}
    IN  IF DOMAIN workflow_config = {} THEN EmptyDict                \* not workflow_config
        ELSE IF workflow_config.json_type # "object" THEN EmptyDict  \* .get raises, caught
        ELSE IF code_node_found THEN reply                           \* return inside the loop
        ELSE reply                                                   \* default structure

\* The pool an administrator's hospital rows are drawn from: two hospitals
\* at the same place that differ in their B+ stock, and a farther one.
DbHospitalPool ==
    { Hospital(0, "Near Low Stock", 88, 6, 10, TRUE, "B+" :> 1 @@ "O+" :> 5),
      Hospital(0, "Near High Stock", 88, 6, 10, TRUE, "B+" :> 4 @@ "O+" :> 0),
      Hospital(0, "Far Low Stock", 648, 6, 10, TRUE, "B+" :> 0 @@ "O+" :> 2) }

\* Number of rows of a hospitals table that was filled before startup.
NumDbHospitals == 2

\* The hospitals tables filled before startup: ids 1..n in row order.
DbHospitalTables ==
    { [i \in 1..NumDbHospitals |-> [f[i] EXCEPT !.id = i]] :
        f \in [1..NumDbHospitals -> DbHospitalPool] }

\* Blood types register_patient stored unvalidated (data.get("blood_type")):
\* a type no hospital stocks, and the empty string.
RegBloodTypes == {"AB-", ""}

\* The database before startup: fresh (both tables empty), or kept from an
\* earlier run in which the hospitals were entered by hand and one patient
\* was registered after the four seeded ones.
InitDatabases ==
    { [hospitals |-> <<>>, patients |-> <<>>] }
    \cup { [hospitals |-> h,
            patients |-> Append(patients_data, PatientDict(5, "Walk-in Patient", 30, bt))] :
            h \in DbHospitalTables, bt \in RegBloodTypes }

NoRequest ==
    /\ req = EmptyDict /\ patient = EmptyDict /\ hospitals = <<>>
    /\ scored_hospitals = <<>> /\ best = EmptyDict /\ stock = 0
    /\ blood_available = FALSE /\ donors_alerted = 0 /\ eta_minutes = 0
    /\ emergency_notified = FALSE /\ hospitals_notified = <<>>
    /\ posts = <<>> /\ response = EmptyDict /\ matches = <<>>

Init ==
    /\ donor_alert_json \in DonorAlertFiles
    /\ DONOR_ALERT_CONFIG = EmptyDict
    /\ \E db \in InitDatabases :
          /\ hospitals_db = db.hospitals
          /\ patients_db = db.patients
          /\ patients_face_descriptor =
                 [id \in {db.patients[i].id : i \in 1..Len(db.patients)} |->
                     generate_demo_descriptor(Str(id))]
    /\ PATIENTS_LEGACY = PATIENTS_LEGACY_SEED
    /\ PATIENT_DESCRIPTORS_LEGACY = PATIENT_DESCRIPTORS_LEGACY_SEED
    /\ pc = "boot"
    /\ NoRequest
    /\ score_call = [called |-> FALSE]
    /\ register_calls = <<>>

\* startup_event: load the workflow file; create and seed the tables when
\* the database can be reached.
startup_event ==
    /\ pc = "boot"
    /\ DONOR_ALERT_CONFIG' = load_donor_alert_config(donor_alert_json, DONOR_ALERT_CONFIG)
    /\ \E database_reached \in BOOLEAN :
          IF database_reached
          THEN /\ hospitals_db' = seed_initial_data_hospitals(hospitals_db)
               /\ patients_db' = seed_initial_data_patients(patients_db)
               /\ patients_face_descriptor' =
                      seed_initial_data_descriptors(patients_db, patients_face_descriptor)
          ELSE UNCHANGED <<hospitals_db, patients_db, patients_face_descriptor>>
    /\ pc' = "idle"
    /\ UNCHANGED <<donor_alert_json, PATIENTS_LEGACY, PATIENT_DESCRIPTORS_LEGACY,
                   req, patient, hospitals,
                   scored_hospitals, best, stock, blood_available,
                   donors_alerted, eta_minutes, emergency_notified,
                   hospitals_notified, posts, response, matches, score_call,
                   register_calls>>

-----------------------------------------------------------------------------
(* allocate_emergency *)

\* db.query(Patient).filter(Patient.id == patient_id_int).first(), as the
\* dict the handler builds from the row; the empty dict when there is no row
patient_db(rows, patient_id_int) ==
    IF \E i \in 1..Len(rows) : rows[i].id = patient_id_int
    THEN LET i == CHOOSE i \in 1..Len(rows) : rows[i].id = patient_id_int
         IN  [rows[i] EXCEPT !.id = Str(rows[i].id)]
    ELSE EmptyDict

patient_legacy_last(legacy, patient_id) ==
    IF \E i \in 1..Len(legacy) : legacy[i].id = patient_id
    THEN legacy[CHOOSE i \in 1..Len(legacy) :
                    /\ legacy[i].id = patient_id
                    /\ \A j \in 1..(i - 1) : legacy[j].id # patient_id]
    ELSE legacy[Len(legacy)]

\* next((p for p in PATIENTS_LEGACY if p["id"] == patient_id), PATIENTS_LEGACY[0])
patient_legacy(legacy, patient_id) ==
    IF \E i \in 1..Len(legacy) : legacy[i].id = patient_id
    THEN legacy[CHOOSE i \in 1..Len(legacy) :
                    /\ legacy[i].id = patient_id
                    /\ \A j \in 1..(i - 1) : legacy[j].id # patient_id]
    ELSE legacy[1]

\* The patient of the request: the database row when the id parses, the
\* query succeeds and finds one; the in-memory patient otherwise.  An id
\* that does not parse raises HTTPException inside the try, which the
\* handler's own "except Exception" catches.
get_patient(rows, legacy, patient_id, patient_query_ok) ==
    LET patient_id_int == ParseInt(patient_id)
        row == patient_db(rows, patient_id_int)
    IN  IF patient_id_int # ParseError /\ patient_query_ok /\ DOMAIN row # {}
        THEN row
        ELSE patient_legacy(legacy, patient_id)

\* The hospital list of a handler that lets the table's rows through
\* although the query raised.
get_hospital_list_despite_failure(rows, hospital_query_ok) ==
    IF Len(rows) > 0
    THEN [i \in 1..Len(rows) |-> [rows[i] EXCEPT !.id = Str(rows[i].id)]]
    ELSE HOSPITALS_LEGACY

\* The hospital list of a handler that takes a bed of the first hospital of
\* the list it reads.
get_hospital_list_taking_bed(rows, hospital_query_ok) ==
    LET hs == IF hospital_query_ok /\ Len(rows) > 0
              THEN [i \in 1..Len(rows) |-> [rows[i] EXCEPT !.id = Str(rows[i].id)]]
              ELSE HOSPITALS_LEGACY
    IN  [hs EXCEPT ![1].icu_beds_available = @ - 1]

\* The list that is scored: the rows of the hospitals table as dicts, or
\* HOSPITALS_LEGACY when the query fails or returns nothing.
get_hospital_list(rows, hospital_query_ok) ==
    IF hospital_query_ok /\ Len(rows) > 0
    THEN [i \in 1..Len(rows) |-> [rows[i] EXCEPT !.id = Str(rows[i].id)]]
    ELSE HOSPITALS_LEGACY

\* scored_hospitals before the sort
score_all(hs, r, p) ==
    [i \in 1..Len(hs) |->
        LET sd == score_hospital(hs[i], r.latitude, r.longitude, p.blood_type,
                                 r.severity, r.needs_blood)
        IN  [hospital |-> hs[i], score |-> sd.score,
             distance_km |-> Round1(sd.distance)]]

RECURSIVE insert_unstable(_, _)
insert_unstable(sorted, x) ==
    IF sorted = <<>> THEN <<x>>
    ELSE IF Head(sorted).score > x.score
         THEN <<Head(sorted)>> \o insert_unstable(Tail(sorted), x)
         ELSE <<x>> \o sorted

RECURSIVE sort_unstable(_)
sort_unstable(s) ==
    IF s = <<>> THEN <<>>
    ELSE insert_unstable(sort_unstable(SubSeq(s, 1, Len(s) - 1)), s[Len(s)])

\* x put behind every entry whose score is not lower
RECURSIVE insert_by_score(_, _)
insert_by_score(sorted, x) ==
    IF sorted = <<>> THEN <<x>>
    ELSE IF Head(sorted).score >= x.score
         THEN <<Head(sorted)>> \o insert_by_score(Tail(sorted), x)
         ELSE <<x>> \o sorted

\* scored_hospitals.sort(key=score, reverse=True): descending, and stable
\* (entries of equal score keep their order)
RECURSIVE sort_by_score(_)
sort_by_score(s) ==
    IF s = <<>> THEN <<>>
    ELSE insert_by_score(sort_by_score(SubSeq(s, 1, Len(s) - 1)), s[Len(s)])

blood_is_available_from_one(st) == st >= 1

\* "if stock >= 2: blood_available = True", else the donor alert
blood_is_available(st) == st >= 2

\* stock of the patient's blood type at the chosen hospital
blood_stock_of(b, p) ==
    LET blood_stock == Get(b.hospital, "blood_stock", EmptyDict)
    IN  IF p.blood_type \in DOMAIN blood_stock THEN blood_stock[p.blood_type] ELSE 0

eta_nearest(b) == (b.distance_km * 2 + 30 + 5) \div 10

\* int(best["distance_km"] * 2 + 3), distance_km in tenths of a km
eta_of(b) == (b.distance_km * 2 + 30) \div 10

donor_payload(r, p, b) ==
    [blood_type |-> p.blood_type, hospital_lat |-> b.hospital.latitude,
     hospital_lng |-> b.hospital.longitude, hospital_name |-> b.hospital.name,
     patient_id |-> p.id, patient_name |-> p.name, severity |-> r.severity,
     latitude |-> r.latitude, longitude |-> r.longitude]

\* the payload built again in the except branch and for donor_details
donor_payload_short(r, p, b) ==
    [blood_type |-> p.blood_type, hospital_name |-> b.hospital.name,
     severity |-> r.severity, latitude |-> r.latitude, longitude |-> r.longitude]

emergency_payload(r, p, b) ==
    [severity |-> r.severity, patient_id |-> p.id, patient_name |-> p.name,
     hospital_name |-> b.hospital.name, latitude |-> r.latitude,
     longitude |-> r.longitude, allocation_score |-> Round1(b.score)]

\* A call that has not returned yet.
Pending == [kind |-> "pending", status_code |-> 0, body_type |-> "none", body |-> EmptyDict]

\* requests.post(url, json=payload, timeout=5)
Post(url, payload) == [url |-> url, json |-> payload, timeout |-> 5, outcome |-> Pending]

\* What requests.post does: a response (status code; body a JSON object, a
\* JSON value that is no object, or no JSON), or an exception.
HttpResponse(status_code, body_type, body) ==
    [kind |-> "response", status_code |-> status_code, body_type |-> body_type, body |-> body]

HttpException(kind) ==
    [kind |-> kind, status_code |-> 0, body_type |-> "none", body |-> EmptyDict]

Failures ==
    { HttpResponse(200, "array", EmptyDict), HttpResponse(200, "not_json", EmptyDict),
      HttpResponse(500, "not_json", EmptyDict),
      HttpException("timeout"), HttpException("connection_error") }

DonorOutcomes ==
    { HttpResponse(200, "object", "donors_notified" :> 2),
      HttpResponse(200, "object", "donors_alerted" :> 4),
      HttpResponse(200, "object", EmptyDict) } \cup Failures

EmergencyOutcomes ==
    { HttpResponse(200, "object", "hospitals_notified" :> <<"Rashid Hospital", "Dubai Hospital">>),
      HttpResponse(200, "object", EmptyDict) } \cup Failures

donors_fallback_zero(config, payload) ==
    LET workflow_response == extract_donor_alert_response(config, payload)
    IN  IF DOMAIN workflow_response # {}
        THEN Get(workflow_response, "donors_notified", 3)
        ELSE 0

\* donors_alerted on each failure path: from the workflow config, else 3
donors_fallback(config, payload) ==
    LET workflow_response == extract_donor_alert_response(config, payload)
    IN  IF DOMAIN workflow_response # {}
        THEN Get(workflow_response, "donors_notified", 3)
        ELSE 3

\* donors_alerted after the donor-alert POST returned `out`
donors_after_post(out, config, r, p, b) ==
    IF out.kind = "response"
    THEN IF out.status_code = 200
         THEN IF out.body_type = "object"
              THEN Get(out.body, "donors_notified", Get(out.body, "donors_alerted", 3))
              ELSE IF out.body_type = "not_json"
              THEN donors_fallback(config, donor_payload(r, p, b))       \* except ValueError
              ELSE donors_fallback(config, donor_payload_short(r, p, b)) \* .get raises: except Exception
         ELSE donors_fallback(config, donor_payload(r, p, b))
    ELSE donors_fallback(config, donor_payload_short(r, p, b))

\* donor_details of the result
donor_details_of(config, r, p, b, ba) ==
    IF r.needs_blood /\ ~ba
    THEN LET workflow_response ==
                 extract_donor_alert_response(config, donor_payload_short(r, p, b))
         IN  IF DOMAIN workflow_response # {} /\ "donors" \in DOMAIN workflow_response
             THEN workflow_response.donors
             ELSE <<>>
    ELSE <<>>

allocation_result(config, r, p, b, eta, ba, da, en, hn) ==
    [status |-> 200,
     patient |-> p,
     allocated_hospital |-> b.hospital,
     distance_km |-> b.distance_km,
     allocation_score |-> Round1(b.score),
     eta_minutes |-> eta,
     blood_available |-> ba,
     donors_alerted |-> da,
     donor_details |-> donor_details_of(config, r, p, b, ba),
     emergency_notified |-> en,
     hospitals_notified |-> hn]

after_blood_check_abort(r, p, b, ba, da, ps) ==
    /\ blood_available' = ba
    /\ donors_alerted' = da
    /\ eta_minutes' = eta_of(b)
    /\ emergency_notified' = FALSE
    /\ hospitals_notified' = <<>>
    /\ IF r.severity = "critical" /\ ~(ps # <<>> /\ ps[Len(ps)].outcome.kind # "response")
       THEN /\ posts' = Append(ps, Post("emergency-notification", emergency_payload(r, p, b)))
            /\ pc' = "emergency_post"
            /\ response' = EmptyDict
       ELSE /\ posts' = ps
            /\ pc' = "done"
            /\ response' = allocation_result(DONOR_ALERT_CONFIG, r, p, b, eta_of(b),
                                             ba, da, FALSE, <<>>)

\* From "eta_minutes = ..." on: the emergency-notification POST for a
\* critical request, the return otherwise.
after_blood_check(r, p, b, ba, da, ps) ==
    /\ blood_available' = ba
    /\ donors_alerted' = da
    /\ eta_minutes' = eta_of(b)
    /\ emergency_notified' = FALSE
    /\ hospitals_notified' = <<>>
    /\ IF r.severity = "critical"
       THEN /\ posts' = Append(ps, Post("emergency-notification", emergency_payload(r, p, b)))
            /\ pc' = "emergency_post"
            /\ response' = EmptyDict
       ELSE /\ posts' = ps
            /\ pc' = "done"
            /\ response' = allocation_result(DONOR_ALERT_CONFIG, r, p, b, eta_of(b),
                                             ba, da, FALSE, <<>>)

\* Request latitudes: the default location, and 4 km north of it.
RequestLatitudes == {0, 400}

\* severity is any string: the three levels, and one the code does not know
RequestSeverities == Severities \cup {"CRITICAL"}

RequestPatientIds == {None, "", "1", "5", "9", "abc"}

AllocationRequests ==
    [patient_id : RequestPatientIds, latitude : RequestLatitudes, longitude : {0},
     severity : RequestSeverities, needs_blood : BOOLEAN]

\* allocate_emergency up to its first requests.post, or to its return when
\* it posts nothing.  Each of the two queries may raise (no session, no
\* connection): the handler then uses the in-memory data.
allocate_emergency(r, patient_query_ok, hospital_query_ok) ==
    /\ pc = "idle"
    /\ req' = r
    /\ IF ~Truthy(r.patient_id)
       THEN /\ response' = [status |-> 400, detail |-> "patient_id is required"]
            /\ pc' = "done"
            /\ patient' = EmptyDict /\ hospitals' = <<>>
            /\ scored_hospitals' = <<>> /\ best' = EmptyDict /\ stock' = 0
            /\ blood_available' = FALSE /\ donors_alerted' = 0
            /\ eta_minutes' = 0 /\ emergency_notified' = FALSE
            /\ hospitals_notified' = <<>> /\ posts' = <<>>
       ELSE LET p  == get_patient(patients_db, PATIENTS_LEGACY, r.patient_id,
                                  patient_query_ok)
                hs == get_hospital_list(hospitals_db, hospital_query_ok)
                sh == sort_by_score(score_all(hs, r, p))
                b  == sh[1]
                checks_blood == r.needs_blood /\ Truthy(p.blood_type)
                st == IF checks_blood THEN blood_stock_of(b, p) ELSE 0
            IN  /\ patient' = p
                /\ hospitals' = hs
                /\ scored_hospitals' = sh
                /\ best' = b
                /\ stock' = st
                /\ IF checks_blood /\ ~blood_is_available(st)
                   THEN /\ posts' = << Post("donor-alert", donor_payload(r, p, b)) >>
                        /\ pc' = "donor_post"
                        /\ blood_available' = FALSE /\ donors_alerted' = 0
                        /\ eta_minutes' = 0 /\ emergency_notified' = FALSE
                        /\ hospitals_notified' = <<>> /\ response' = EmptyDict
                   ELSE after_blood_check(r, p, b, checks_blood /\ blood_is_available(st), 0, <<>>)
    /\ UNCHANGED <<store_vars, score_call, register_calls, matches>>

\* The donor-alert POST returns (a response, or an exception after at most
\* the 5 s timeout); the handler runs on to the emergency POST or returns.
donor_post_returns ==
    /\ pc = "donor_post"
    /\ \E out \in DonorOutcomes :
          after_blood_check(req, patient, best, FALSE,
                            donors_after_post(out, DONOR_ALERT_CONFIG, req, patient, best),
                            [posts EXCEPT ![Len(posts)].outcome = out])
    /\ UNCHANGED <<store_vars, score_call, register_calls, req, patient, hospitals,
                   scored_hospitals, best, stock, matches>>

emergency_strict(out) ==
    IF out.kind = "response" /\ out.status_code = 200 /\ out.body_type # "array"
    THEN [emergency_notified |-> TRUE,
          hospitals_notified |-> IF out.body_type = "object"
                                 THEN Get(out.body, "hospitals_notified", <<>>)
                                 ELSE <<"Nearby Hospitals">>]
    ELSE [emergency_notified |-> FALSE, hospitals_notified |-> <<>>]

\* emergency_notified and hospitals_notified after the emergency POST
\* returned `out`: every branch sets emergency_notified = True.
emergency_after_post(out) ==
    IF out.kind = "response" /\ out.status_code = 200 /\ out.body_type = "object"
    THEN [emergency_notified |-> TRUE,
          hospitals_notified |-> Get(out.body, "hospitals_notified", <<>>)]
    ELSE [emergency_notified |-> TRUE, hospitals_notified |-> <<"Nearby Hospitals">>]

\* The emergency-notification POST returns; the handler returns its result.
emergency_post_returns ==
    /\ pc = "emergency_post"
    /\ \E out \in EmergencyOutcomes :
          LET e == emergency_after_post(out)
          IN  /\ emergency_notified' = e.emergency_notified
              /\ hospitals_notified' = e.hospitals_notified
              /\ posts' = [posts EXCEPT ![Len(posts)].outcome = out]
              /\ response' = allocation_result(DONOR_ALERT_CONFIG, req, patient, best,
                                               eta_minutes, blood_available,
                                               donors_alerted, e.emergency_notified,
                                               e.hospitals_notified)
    /\ pc' = "done"
    /\ UNCHANGED <<store_vars, score_call, register_calls, req, patient, hospitals,
                   scored_hospitals, best, stock, blood_available,
                   donors_alerted, eta_minutes, matches>>

\* The response is sent and the handler's locals are gone; the server takes
\* the next request.
send_response ==
    /\ pc = "done"
    /\ pc' = "idle"
    /\ req' = EmptyDict /\ patient' = EmptyDict /\ hospitals' = <<>>
    /\ scored_hospitals' = <<>> /\ best' = EmptyDict /\ stock' = 0
    /\ blood_available' = FALSE /\ donors_alerted' = 0 /\ eta_minutes' = 0
    /\ emergency_notified' = FALSE /\ hospitals_notified' = <<>>
    /\ posts' = <<>> /\ response' = EmptyDict /\ matches' = <<>>
    /\ UNCHANGED <<store_vars, score_call, register_calls>>

-----------------------------------------------------------------------------
(* identify_patient *)

\* demo_patients = [{"id": "5", "name": "Ahmad Hassan"}]
DemoId == "5"

\* "distance": None
NoDistance == -1

\* round(x, 4) of the quotient num / den >= 0, in units of 0.0001
Round4(num, den) ==
    LET q == (10000 * num) \div den
        r == (10000 * num) % den
    IN  IF 2 * r > den \/ (2 * r = den /\ q % 2 = 1) THEN q + 1 ELSE q

\* round(max(floor, 1.0 - distance / confidence_base), 4), in units of
\* 0.0001; confidence_base = max(base, distance * 2.0)
confidence_with_floor(floor, base, distance) ==
    LET confidence_base == Max(base, 2 * distance)
    IN  Max(floor, Round4(confidence_base - distance, confidence_base))

\* The candidates from the patients table: the rows whose descriptor is a
\* list of 128, in row order, each with its distance to the query.
db_matches(rows, column, face_descriptor) ==
    LET well_formed(row) ==
            /\ row.id \in DOMAIN column
            /\ IsList(column[row.id])
            /\ column[row.id].len = 128
        kept == SelectSeq(rows, well_formed)
    IN  [i \in 1..Len(kept) |->
            [patient |-> [kept[i] EXCEPT !.id = Str(kept[i].id)],
             distance |-> calculate_face_distance(face_descriptor, column[kept[i].id])]]

\* The candidates from PATIENTS_LEGACY: those whose id is not among the
\* candidates so far and has a descriptor in the map.
legacy_matches(legacy, map, face_descriptor, so_far) ==
    LET fresh(p) ==
            /\ ~\E i \in 1..Len(so_far) : so_far[i].patient.id = p.id
            /\ p.id \in DOMAIN map
        kept == SelectSeq(legacy, fresh)
    IN  [i \in 1..Len(kept) |->
            [patient |-> kept[i],
             distance |-> calculate_face_distance(face_descriptor, map[kept[i].id])]]

RECURSIVE insert_by_distance(_, _)
insert_by_distance(sorted, x) ==
    IF sorted = <<>> THEN <<x>>
    ELSE IF x.distance < Head(sorted).distance
         THEN <<x>> \o sorted
         ELSE <<Head(sorted)>> \o insert_by_distance(Tail(sorted), x)

\* matches.sort(key=lambda m: m["distance"]): ascending, stable
RECURSIVE sort_by_distance(_)
sort_by_distance(ms) ==
    IF ms = <<>> THEN <<>>
    ELSE insert_by_distance(sort_by_distance(SubSeq(ms, 1, Len(ms) - 1)), ms[Len(ms)])

\* matches of a valid query, sorted; the query of the table raises when
\* db_ok is false, and the handler then uses the in-memory data alone.
find_matches(rows, column, legacy, map, face_descriptor, db_ok) ==
    LET from_db == IF db_ok THEN db_matches(rows, column, face_descriptor) ELSE <<>>
    IN  sort_by_distance(from_db \o legacy_matches(legacy, map, face_descriptor, from_db))

\* relative_improvement > 0.3
best_is_much_closer(ms) ==
    /\ Len(ms) > 1
    /\ ms[2].distance > 0
    /\ 10 * (ms[2].distance - ms[1].distance) > 3 * ms[2].distance

match_threshold_claimed(ms) ==
    IF ms # <<>> /\ best_is_much_closer(ms) THEN 3 * ms[1].distance ELSE 500

\* MATCH_THRESHOLD left at 2.5 whatever the second-best distance.
match_threshold_fixed(ms) == 500

\* MATCH_THRESHOLD, in units of 0.005: 2.5, or max(2.5, best_distance * 1.5)
\* when the best match is much closer than the second
match_threshold(ms) ==
    IF ms # <<>> /\ best_is_much_closer(ms) THEN Max(500, 3 * ms[1].distance) ELSE 500

\* [matches[i] for i in range(1, min(3, len(matches)))]
alternatives_after_best(ms) == SubSeq(ms, 2, Min(3, Len(ms)))

\* [matches[i] for i in range(min(3, len(matches)))
\*  if matches[i]["patient"].get("id") != demo_id]
alternatives_without(ms, demo_id) ==
    LET other(m) == m.patient.id # demo_id
    IN  SelectSeq(SubSeq(ms, 1, Min(3, Len(ms))), other)

MatchResult(m, confidence, method, alternatives) ==
    [match_found |-> TRUE, patient |-> m.patient, confidence |-> confidence,
     distance |-> m.distance, method |-> method, alternatives |-> alternatives]

\* Position of the demo patient in matches (from 1), 0 when it is no candidate
demo_position(ms) ==
    IF \E i \in 1..Len(ms) : ms[i].patient.id = DemoId
    THEN CHOOSE i \in 1..Len(ms) :
            /\ ms[i].patient.id = DemoId
            /\ \A j \in 1..(i - 1) : ms[j].patient.id # DemoId
    ELSE 0

not_significantly_better_below_one(best_distance, distance_to_demo) ==
    distance_to_demo - best_distance < distance_to_demo

\* improvement_ratio < 0.5 (the best match is closer than the demo patient)
not_significantly_better(best_distance, distance_to_demo) ==
    2 * (distance_to_demo - best_distance) < distance_to_demo

demo_closest_rule_within_100(ms) ==
    IF ms[1].distance < 10000
    THEN MatchResult(ms[1], confidence_with_floor(6000, 1500, ms[1].distance),
                     "photo_upload_demo_match", alternatives_after_best(ms))
    ELSE EmptyDict

\* "if best_patient_id in demo_ids and DEMO_MODE": the closest candidate is
\* the demo patient, and is returned whatever its distance
demo_closest_rule(ms) ==
    MatchResult(ms[1], confidence_with_floor(6000, 1500, ms[1].distance),
                "photo_upload_demo_match", alternatives_after_best(ms))

\* The demo rules (DEMO_MODE): the result they return, or the empty dict
\* when none of them returns.
demo_rules(ms) ==
    LET pos == demo_position(ms)
        demo_match == ms[pos]
        d == demo_match.distance
        best_distance == ms[1].distance
    IN  IF ms = <<>> \/ pos = 0 THEN EmptyDict
        ELSE IF pos = 1
        THEN demo_closest_rule(ms)
        ELSE IF pos - 1 < 3 /\ d < 1200
        THEN MatchResult(demo_match, confidence_with_floor(5000, 1200, d),
                         "photo_upload_demo_match_top3", alternatives_without(ms, DemoId))
        ELSE IF d < 5000
        THEN IF best_distance < d /\ ~not_significantly_better(best_distance, d)
             THEN EmptyDict
             ELSE MatchResult(demo_match, confidence_with_floor(3000, 5000, d),
                              "photo_upload_demo_match_lenient",
                              alternatives_without(ms, DemoId))
        ELSE IF d < 10000
        THEN MatchResult(demo_match, confidence_with_floor(2000, 10000, d),
                         "photo_upload_demo_match_ultra_lenient",
                         alternatives_without(ms, DemoId))
        ELSE EmptyDict

\* The standard rule followed by the no-match result alone: the demo patient
\* found among the matches is not returned.
standard_rule_without_suggestion(ms) ==
    LET threshold == match_threshold(ms)
    IN  IF ms # <<>> /\ 2 * ms[1].distance < threshold
        THEN MatchResult(ms[1], Max(0, Round4(threshold - 2 * ms[1].distance, threshold)),
                         "euclidean_distance", alternatives_after_best(ms))
        ELSE [match_found |-> FALSE,
              message |-> "No match within threshold",
              closest_patient |-> IF ms # <<>> THEN ms[1].patient.name ELSE None,
              distance |-> IF ms # <<>> THEN ms[1].distance ELSE NoDistance,
              alternatives |-> alternatives_after_best(ms),
              method |-> "euclidean_distance"]

\* The standard rule and what follows it when it does not accept.
standard_rule(ms) ==
    LET threshold == match_threshold(ms)
        pos == demo_position(ms)
    IN  IF ms # <<>> /\ 2 * ms[1].distance < threshold
        THEN MatchResult(ms[1], Max(0, Round4(threshold - 2 * ms[1].distance, threshold)),
                         "euclidean_distance", alternatives_after_best(ms))
        ELSE IF ms # <<>> /\ pos > 1 /\ ms[pos].distance < 10000
        THEN MatchResult(ms[pos], confidence_with_floor(2000, 10000, ms[pos].distance),
                         "photo_upload_demo_match_suggestion",
                         alternatives_without(ms, DemoId))
        ELSE LET no_match ==
                     [match_found |-> FALSE,
                      message |-> "No match within threshold",
                      closest_patient |-> IF ms # <<>> THEN ms[1].patient.name ELSE None,
                      distance |-> IF ms # <<>> THEN ms[1].distance ELSE NoDistance,
                      alternatives |-> alternatives_after_best(ms),
                      method |-> "euclidean_distance"]
             IN  IF pos = 1
                 THEN [no_match EXCEPT !.message = "No exact match found"]
                          @@ [suggested_patient |-> ms[1].patient]
                 ELSE no_match

\* The result for a query that is a list of 128, from the sorted matches.
identify_result(ms) ==
    IF DOMAIN demo_rules(ms) # {} THEN demo_rules(ms) ELSE standard_rule(ms)

\* The queries: no descriptor, an empty list, lists of the wrong length, a
\* string, a number, and lists of 128 floats on one axis.
QueryXs == {0, 3000, 3400, 10500, 15000}

InvalidDescriptors ==
    { Descriptor(3, 100, 0), Descriptor(127, 100, 0), Descriptor(129, 100, 0),
      StringDescriptor, NumberDescriptor }

IdentifyQueries ==
    { NoDescriptor, Descriptor(0, 0, 0) } \cup InvalidDescriptors
        \cup { Descriptor(128, x, 0) : x \in QueryXs }

is_128_list_or_shorter(face_descriptor) ==
    IsList(face_descriptor) /\ face_descriptor.len <= 128

\* isinstance(face_descriptor, (list, tuple)) and len(face_descriptor) == 128
is_128_list(face_descriptor) ==
    IsList(face_descriptor) /\ face_descriptor.len = 128

demo_patient_first(legacy) == IF legacy # <<>> THEN 1 ELSE 0

\* next((p for p in PATIENTS_LEGACY if p.get("id") == "5"), None): the index
\* of the record, 0 for None
demo_patient(legacy) ==
    IF \E i \in 1..Len(legacy) : legacy[i].id = DemoId
    THEN CHOOSE i \in 1..Len(legacy) :
            /\ legacy[i].id = DemoId
            /\ \A j \in 1..(i - 1) : legacy[j].id # DemoId
    ELSE 0

\* The table can be queried once startup created it.
DbOutcomes == IF patients_db = <<>> THEN {FALSE} ELSE BOOLEAN

\* identify_patient, DATABASE_AVAILABLE being true and db a session
identify_patient(face_descriptor, db_ok) ==
    /\ pc = "idle"
    /\ req' = [face_descriptor |-> face_descriptor]
    /\ IF face_descriptor.kind = "None" \/ (IsList(face_descriptor) /\ face_descriptor.len = 0)
       THEN /\ matches' = <<>>
            /\ IF demo_patient(PATIENTS_LEGACY) # 0
               THEN response' =
                        [match_found |-> TRUE,
                         patient |-> PATIENTS_LEGACY[demo_patient(PATIENTS_LEGACY)],
                         confidence |-> 9500, distance |-> 0, method |-> "demo_mode",
                         alternatives |-> <<>>]
               ELSE \E p \in IF db_ok /\ patients_db # <<>>
                             THEN {[patients_db[i] EXCEPT !.id = Str(patients_db[i].id)] :
                                      i \in 1..Len(patients_db)}
                             ELSE {PATIENTS_LEGACY[i] : i \in 1..Len(PATIENTS_LEGACY)} :
                        response' =
                            [match_found |-> TRUE, patient |-> p, confidence |-> 5000,
                             distance |-> NoDistance, method |-> "fallback_random",
                             alternatives |-> <<>>]
       ELSE IF ~is_128_list(face_descriptor)
       THEN /\ matches' = <<>>
            /\ response' = [match_found |-> FALSE,
                            message |-> "face_descriptor must be a 128-length array"]
       ELSE LET ms == find_matches(patients_db, patients_face_descriptor, PATIENTS_LEGACY,
                                   PATIENT_DESCRIPTORS_LEGACY, face_descriptor, db_ok)
            IN  /\ matches' = ms
                /\ response' = identify_result(ms)
    /\ pc' = "identified"
    /\ UNCHANGED <<store_vars, score_call, register_calls, patient, hospitals, scored_hospitals, best,
                   stock, blood_available, donors_alerted, eta_minutes,
                   emergency_notified, hospitals_notified, posts>>

-----------------------------------------------------------------------------
(* register_patient *)

\* Number of patients registered after the seeded ones, at most.
MaxNewPatients == 2

\* Patients created so far, in the table and in memory.
NewPatients ==
    (Len(PATIENTS_LEGACY) - Len(PATIENTS_LEGACY_SEED))
        + (IF patients_db = <<>> THEN 0 ELSE Len(patients_db) - Len(patients_data))

RegisterNames == {"Jane Doe", "Ahmad Hassan", "Hassan Ali"}

\* name.lower()
Lower(name) ==
    ("Jane Doe" :> "jane doe" @@ "Ahmad Hassan" :> "ahmad hassan"
        @@ "Hassan Ali" :> "hassan ali")[name]

\* keyword in name_lower
Contains(name_lower, keyword) ==
    keyword \in ("jane doe" :> {} @@ "ahmad hassan" :> {"ahmad", "hassan"}
                    @@ "hassan ali" :> {"hassan"})[name_lower]

\* demo["name"].lower() == name_lower or any(keyword in name_lower ...)
is_demo_name(name) ==
    \/ Lower("Ahmad Hassan") = Lower(name)
    \/ \E keyword \in {"ahmad", "hassan"} : Contains(Lower(name), keyword)

RegisterXs == {3000, 3400}

RegisterDescriptors ==
    { NoDescriptor, Descriptor(3, 100, 0), StringDescriptor }
        \cup { Descriptor(128, x, 0) : x \in RegisterXs }

\* name is a string, or null: data.get("name", ...) is None then
RegisterRequests ==
    [name : RegisterNames \cup {None}, age : {40}, blood_type : {"A-"},
     face_descriptor : RegisterDescriptors]

\* db.query(Patient).order_by(Patient.id.desc()).first(): (max_id.id + 1)
\* if max_id else 1; also the id the table gives the next row
next_db_id(rows) == IF rows = <<>> THEN 1 ELSE rows[Len(rows)].id + 1

\* max((int(p["id"]) for p in PATIENTS_LEGACY), default=0) + 1
next_legacy_id(legacy) ==
    IF legacy = <<>> THEN 1
    ELSE (CHOOSE n \in {ParseInt(legacy[i].id) : i \in 1..Len(legacy)} :
             \A i \in 1..Len(legacy) : ParseInt(legacy[i].id) <= n) + 1

descriptor_given_as_sent(desc, rows, legacy, query_ok) == desc

\* face_descriptor after "Get face descriptor": the list of 128 given, a
\* generated one when desc is falsy or a list of another length, else None
descriptor_given(desc, rows, legacy, query_ok) ==
    IF IsList(desc) /\ desc.len = 128 THEN desc
    ELSE IF ~TruthyDescriptor(desc) \/ (IsList(desc) /\ desc.len # 128)
    THEN generate_demo_descriptor(
             Str(IF query_ok THEN next_db_id(rows) ELSE next_legacy_id(legacy)))
    ELSE NoDescriptor

\* face_descriptor in the database branch, before the row is created
descriptor_to_save(fd, rows, query_ok) ==
    IF fd.kind = "None"
    THEN generate_demo_descriptor(Str(IF query_ok THEN next_db_id(rows) ELSE 1))
    ELSE fd

\* Index in PATIENTS_LEGACY of the record the in-memory branch updates for
\* this name, 0 when it creates a patient.
demo_record(legacy, name) ==
    IF is_demo_name(name)
          /\ \E i \in 1..Len(legacy) : legacy[i].id = DemoId \/ legacy[i].name = "Ahmad Hassan"
    THEN LET first == CHOOSE i \in 1..Len(legacy) :
                         /\ legacy[i].id = DemoId \/ legacy[i].name = "Ahmad Hassan"
                         /\ \A j \in 1..(i - 1) :
                               ~(legacy[j].id = DemoId \/ legacy[j].name = "Ahmad Hassan")
         IN  CHOOSE i \in 1..Len(legacy) :
                /\ legacy[i].id = legacy[first].id
                /\ \A j \in 1..(i - 1) : legacy[j].id # legacy[first].id
    ELSE 0

registration_failure_without_reason == [success |-> FALSE, patient |-> None]

\* {"success": False, "error": f"Registration failed: {str(e)}", "patient": None}
registration_failure ==
    [success |-> FALSE, error |-> "Registration failed", patient |-> None]

\* register_patient, DATABASE_AVAILABLE being true and db a session.  The
\* queries of the table raise when query_ok is false, the commit when
\* commit_ok is false (it always raises for a null name, the column being
\* NOT NULL); after a failed commit the handler stores in memory, where
\* name.lower() raises for a null name.
register_patient(data, query_ok, commit_ok) ==
    /\ pc = "idle"
    /\ NewPatients < MaxNewPatients
    /\ req' = data
    /\ LET fd  == descriptor_to_save(
                      descriptor_given(data.face_descriptor, patients_db,
                                       PATIENTS_LEGACY, query_ok),
                      patients_db, query_ok)
           new_id == next_db_id(patients_db)
           i == demo_record(PATIENTS_LEGACY, data.name)
           next_id == Str(next_legacy_id(PATIENTS_LEGACY))
       IN  IF commit_ok /\ is_128_list(fd) /\ data.name # None
           THEN /\ patients_db' = Append(patients_db,
                        PatientDict(new_id, data.name, data.age, data.blood_type))
                /\ patients_face_descriptor' = (new_id :> fd) @@ patients_face_descriptor
                /\ response' = [success |-> TRUE,
                                patient |-> PatientDict(Str(new_id), data.name, data.age,
                                                        data.blood_type)]
                /\ UNCHANGED <<PATIENTS_LEGACY, PATIENT_DESCRIPTORS_LEGACY>>
           ELSE IF data.name = None
           THEN /\ response' = registration_failure
                /\ UNCHANGED <<patients_db, patients_face_descriptor,
                               PATIENTS_LEGACY, PATIENT_DESCRIPTORS_LEGACY>>
           ELSE IF i # 0
           THEN LET updated == [PATIENTS_LEGACY[i] EXCEPT
                                   !.age = IF data.age # 0 THEN data.age ELSE @,
                                   !.blood_type = IF Truthy(data.blood_type)
                                                  THEN data.blood_type ELSE @]
                IN  /\ PATIENTS_LEGACY' = [PATIENTS_LEGACY EXCEPT ![i] = updated]
                    /\ PATIENT_DESCRIPTORS_LEGACY' =
                           IF TruthyDescriptor(fd)
                           THEN (updated.id :> fd) @@ PATIENT_DESCRIPTORS_LEGACY
                           ELSE PATIENT_DESCRIPTORS_LEGACY
                    /\ response' = [success |-> TRUE, patient |-> updated, updated |-> TRUE]
                    /\ UNCHANGED <<patients_db, patients_face_descriptor>>
           ELSE /\ PATIENTS_LEGACY' = Append(PATIENTS_LEGACY,
                        PatientDict(next_id, data.name, data.age, data.blood_type))
                /\ PATIENT_DESCRIPTORS_LEGACY' =
                       (next_id :> (IF TruthyDescriptor(fd) THEN fd
                                    ELSE generate_demo_descriptor(next_id)))
                           @@ PATIENT_DESCRIPTORS_LEGACY
                /\ response' = [success |-> TRUE,
                                patient |-> PatientDict(next_id, data.name, data.age,
                                                        data.blood_type)]
                /\ UNCHANGED <<patients_db, patients_face_descriptor>>
    /\ pc' = "registered"
    /\ UNCHANGED <<donor_alert_json, DONOR_ALERT_CONFIG, hospitals_db, score_call,
                   register_calls,
                   patient, hospitals, scored_hospitals, best, stock, blood_available,
                   donors_alerted, eta_minutes, emergency_notified,
                   hospitals_notified, posts, matches>>

\* The response of a patient handler is sent; the server takes the next
\* request.
send_patient_response ==
    /\ pc \in {"identified", "registered", "listed"}
    /\ pc' = "idle"
    /\ req' = EmptyDict /\ response' = EmptyDict /\ matches' = <<>>
    /\ UNCHANGED <<store_vars, score_call, register_calls, patient, hospitals, scored_hospitals, best,
                   stock, blood_available, donors_alerted, eta_minutes,
                   emergency_notified, hospitals_notified, posts>>

-----------------------------------------------------------------------------
(* get_hospitals and get_patients *)

\* The rows of a table as the dicts the list handlers build: str(id).
rows_as_dicts(rows) == [i \in 1..Len(rows) |-> [rows[i] EXCEPT !.id = Str(rows[i].id)]]

\* GET /api/hospitals: the rows of the table, however many; HOSPITALS_LEGACY
\* when there is no database or the query raises.
get_hospitals(query_ok) ==
    /\ pc = "idle"
    /\ req' = [list |-> "hospitals"]
    /\ response' = [status |-> 200,
                    body |-> IF query_ok THEN rows_as_dicts(hospitals_db)
                                         ELSE HOSPITALS_LEGACY]
    /\ pc' = "listed"
    /\ UNCHANGED <<store_vars, score_call, register_calls, patient, hospitals,
                   scored_hospitals, best, stock, blood_available, donors_alerted,
                   eta_minutes, emergency_notified, hospitals_notified, posts,
                   matches>>

\* GET /api/patients: the rows of the table; PATIENTS_LEGACY when there is
\* no database or the query raises.
get_patients(query_ok) ==
    /\ pc = "idle"
    /\ req' = [list |-> "patients"]
    /\ response' = [status |-> 200,
                    body |-> IF query_ok THEN rows_as_dicts(patients_db)
                                         ELSE PATIENTS_LEGACY]
    /\ pc' = "listed"
    /\ UNCHANGED <<store_vars, score_call, register_calls, patient, hospitals,
                   scored_hospitals, best, stock, blood_available, donors_alerted,
                   eta_minutes, emergency_notified, hospitals_notified, posts,
                   matches>>

-----------------------------------------------------------------------------
(* register_patient in several threads.  The handler is a plain "def", so
   the server runs each call in a thread of its pool; the calls share
   PATIENTS_LEGACY and PATIENT_DESCRIPTORS_LEGACY without a lock.  The calls
   modelled here store in memory: the database is not usable. *)

\* Calls that run at the same time, at most.
NumThreads == 2

Threads == 1..NumThreads

NoCall ==
    [pc |-> "idle", data |-> EmptyDict, face_descriptor |-> NoDescriptor,
     patient_id_to_update |-> None, patient |-> 0, next_id |-> None,
     response |-> EmptyDict]

\* The requests of the concurrent calls: two patients' data, each under a
\* new name and under the demo name.
ConcurrentRequests ==
    { [name |-> name, age |-> 40, blood_type |-> "A-",
       face_descriptor |-> Descriptor(128, 3000, 0)] : name \in {"Jane Doe", "Ahmad Hassan"} }
    \cup
    { [name |-> name, age |-> 50, blood_type |-> "B-",
       face_descriptor |-> Descriptor(128, 3400, 0)] : name \in {"Jane Doe", "Ahmad Hassan"} }

\* next((p for p in PATIENTS_LEGACY if p.get("id") == patient_id_to_update),
\* None): the index of the record, 0 for None
patient_to_update(legacy, patient_id_to_update) ==
    IF \E i \in 1..Len(legacy) : legacy[i].id = patient_id_to_update
    THEN CHOOSE i \in 1..Len(legacy) :
            /\ legacy[i].id = patient_id_to_update
            /\ \A j \in 1..(i - 1) : legacy[j].id # patient_id_to_update
    ELSE 0

\* The call of thread t up to "if patient_id_to_update:": the descriptor is
\* chosen, the table write fails, the demo record is looked up by name and
\* found again by id.
register_lookup(t, data) ==
    /\ pc = "idle"
    /\ register_calls[t].pc = "idle"
    /\ LET fd == descriptor_to_save(
                     descriptor_given(data.face_descriptor, patients_db,
                                      PATIENTS_LEGACY, FALSE),
                     patients_db, FALSE)
           i == demo_record(PATIENTS_LEGACY, data.name)
           id == IF i # 0 THEN PATIENTS_LEGACY[i].id ELSE None
       IN  register_calls' =
               [register_calls EXCEPT ![t] =
                   [pc |-> IF i # 0 THEN "update_age" ELSE "next_id",
                    data |-> data, face_descriptor |-> fd,
                    patient_id_to_update |-> id,
                    patient |-> patient_to_update(PATIENTS_LEGACY, id),
                    next_id |-> None, response |-> EmptyDict]]
    /\ UNCHANGED <<store_vars, handler_vars, score_call>>

\* if age: patient["age"] = age
register_update_age(t) ==
    /\ register_calls[t].pc = "update_age"
    /\ LET c == register_calls[t]
       IN  PATIENTS_LEGACY' =
               [PATIENTS_LEGACY EXCEPT ![c.patient].age =
                   IF c.data.age # 0 THEN c.data.age ELSE @]
    /\ register_calls' = [register_calls EXCEPT ![t].pc = "update_blood_type"]
    /\ UNCHANGED <<donor_alert_json, DONOR_ALERT_CONFIG, patients_db, hospitals_db,
                   patients_face_descriptor, PATIENT_DESCRIPTORS_LEGACY,
                   handler_vars, score_call>>

\* if blood_type: patient["blood_type"] = blood_type
register_update_blood_type(t) ==
    /\ register_calls[t].pc = "update_blood_type"
    /\ LET c == register_calls[t]
       IN  PATIENTS_LEGACY' =
               [PATIENTS_LEGACY EXCEPT ![c.patient].blood_type =
                   IF Truthy(c.data.blood_type) THEN c.data.blood_type ELSE @]
    /\ register_calls' = [register_calls EXCEPT ![t].pc = "update_descriptor"]
    /\ UNCHANGED <<donor_alert_json, DONOR_ALERT_CONFIG, patients_db, hospitals_db,
                   patients_face_descriptor, PATIENT_DESCRIPTORS_LEGACY,
                   handler_vars, score_call>>

\* PATIENT_DESCRIPTORS_LEGACY[patient_id_to_update] = face_descriptor, and
\* the return of the record as it is then
register_update_descriptor(t) ==
    /\ register_calls[t].pc = "update_descriptor"
    /\ LET c == register_calls[t]
       IN  /\ PATIENT_DESCRIPTORS_LEGACY' =
                  IF TruthyDescriptor(c.face_descriptor)
                  THEN (c.patient_id_to_update :> c.face_descriptor)
                           @@ PATIENT_DESCRIPTORS_LEGACY
                  ELSE PATIENT_DESCRIPTORS_LEGACY
           /\ register_calls' =
                  [register_calls EXCEPT
                      ![t].pc = "returned",
                      ![t].response = [success |-> TRUE,
                                       patient |-> PATIENTS_LEGACY[c.patient],
                                       updated |-> TRUE]]
    /\ UNCHANGED <<donor_alert_json, DONOR_ALERT_CONFIG, patients_db, hospitals_db,
                   patients_face_descriptor, PATIENTS_LEGACY, handler_vars, score_call>>

\* next_id = str(max((int(p["id"]) for p in PATIENTS_LEGACY), default=0) + 1)
register_next_id(t) ==
    /\ register_calls[t].pc = "next_id"
    /\ register_calls' =
           [register_calls EXCEPT ![t].pc = "append",
                                  ![t].next_id = Str(next_legacy_id(PATIENTS_LEGACY))]
    /\ UNCHANGED <<store_vars, handler_vars, score_call>>

\* PATIENTS_LEGACY.append(patient)
register_append(t) ==
    /\ register_calls[t].pc = "append"
    /\ LET c == register_calls[t]
       IN  PATIENTS_LEGACY' =
               Append(PATIENTS_LEGACY,
                      PatientDict(c.next_id, c.data.name, c.data.age, c.data.blood_type))
    /\ register_calls' = [register_calls EXCEPT ![t].pc = "store_descriptor"]
    /\ UNCHANGED <<donor_alert_json, DONOR_ALERT_CONFIG, patients_db, hospitals_db,
                   patients_face_descriptor, PATIENT_DESCRIPTORS_LEGACY,
                   handler_vars, score_call>>

\* PATIENT_DESCRIPTORS_LEGACY[next_id] = face_descriptor (or a generated
\* one), and the return
register_store_descriptor(t) ==
    /\ register_calls[t].pc = "store_descriptor"
    /\ LET c == register_calls[t]
       IN  /\ PATIENT_DESCRIPTORS_LEGACY' =
                  (c.next_id :> (IF TruthyDescriptor(c.face_descriptor)
                                 THEN c.face_descriptor
                                 ELSE generate_demo_descriptor(c.next_id)))
                      @@ PATIENT_DESCRIPTORS_LEGACY
           /\ register_calls' =
                  [register_calls EXCEPT
                      ![t].pc = "returned",
                      ![t].response =
                          [success |-> TRUE,
                           patient |-> PatientDict(c.next_id, c.data.name, c.data.age,
                                                   c.data.blood_type)]]
    /\ UNCHANGED <<donor_alert_json, DONOR_ALERT_CONFIG, patients_db, hospitals_db,
                   patients_face_descriptor, PATIENTS_LEGACY, handler_vars, score_call>>

-----------------------------------------------------------------------------
(* Specifications *)

Next ==
    \/ startup_event
    \/ \E r \in AllocationRequests, patient_query_ok \in BOOLEAN, hospital_query_ok \in BOOLEAN :
          allocate_emergency(r, patient_query_ok, hospital_query_ok)
    \/ donor_post_returns
    \/ emergency_post_returns
    \/ send_response

Spec == Init /\ [][Next]_vars

\* requests.post is called with timeout=5: a call returns.
FairSpec ==
    Spec /\ WF_vars(donor_post_returns) /\ WF_vars(emergency_post_returns)

\* The scorer called directly: the server is not started.
InitScore ==
    /\ donor_alert_json = [exists |-> FALSE, parses |-> FALSE, json |-> EmptyDict]
    /\ DONOR_ALERT_CONFIG = EmptyDict
    /\ hospitals_db = <<>>
    /\ patients_db = <<>>
    /\ patients_face_descriptor = EmptyDict
    /\ PATIENTS_LEGACY = PATIENTS_LEGACY_SEED
    /\ PATIENT_DESCRIPTORS_LEGACY = PATIENT_DESCRIPTORS_LEGACY_SEED
    /\ pc = "boot"
    /\ NoRequest
    /\ score_call = [called |-> FALSE]
    /\ register_calls = <<>>

NextScore == ScoreCall

SpecScore == InitScore /\ [][NextScore]_vars

\* The patient handlers: the server from a first start (empty tables) on.
InitPatients ==
    /\ donor_alert_json = [exists |-> FALSE, parses |-> FALSE, json |-> EmptyDict]
    /\ DONOR_ALERT_CONFIG = EmptyDict
    /\ hospitals_db = <<>>
    /\ patients_db = <<>>
    /\ patients_face_descriptor = EmptyDict
    /\ PATIENTS_LEGACY = PATIENTS_LEGACY_SEED
    /\ PATIENT_DESCRIPTORS_LEGACY = PATIENT_DESCRIPTORS_LEGACY_SEED
    /\ pc = "boot"
    /\ NoRequest
    /\ score_call = [called |-> FALSE]
    /\ register_calls = <<>>

NextPatients ==
    \/ startup_event
    \/ \E face_descriptor \in IdentifyQueries, db_ok \in DbOutcomes :
          identify_patient(face_descriptor, db_ok)
    \/ \E data \in RegisterRequests, query_ok \in DbOutcomes, commit_ok \in DbOutcomes :
          register_patient(data, query_ok, commit_ok)
    \/ send_patient_response

SpecPatients == InitPatients /\ [][NextPatients]_vars

\* Concurrent registrations: the server is up, its database is not usable,
\* and each pool thread runs one call.
InitConcurrent ==
    /\ donor_alert_json = [exists |-> FALSE, parses |-> FALSE, json |-> EmptyDict]
    /\ DONOR_ALERT_CONFIG = EmptyDict
    /\ hospitals_db = <<>>
    /\ patients_db = <<>>
    /\ patients_face_descriptor = EmptyDict
    /\ PATIENTS_LEGACY = PATIENTS_LEGACY_SEED
    /\ PATIENT_DESCRIPTORS_LEGACY = PATIENT_DESCRIPTORS_LEGACY_SEED
    /\ pc = "idle"
    /\ NoRequest
    /\ score_call = [called |-> FALSE]
    /\ register_calls = [t \in Threads |-> NoCall]

NextConcurrent ==
    \E t \in Threads :
        \/ \E data \in ConcurrentRequests : register_lookup(t, data)
        \/ register_update_age(t)
        \/ register_update_blood_type(t)
        \/ register_update_descriptor(t)
        \/ register_next_id(t)
        \/ register_append(t)
        \/ register_store_descriptor(t)

SpecConcurrent == InitConcurrent /\ [][NextConcurrent]_vars

\* The server with a database that cannot be used: there is no session
\* (DATABASE_AVAILABLE is false), or the tables exist, seeded or kept from an
\* earlier run, and every query and commit of a handler raises.
UnavailableRequests ==
    [patient_id : {"1", "5", "7", "abc"}, latitude : {0}, longitude : {0},
     severity : {"critical", "mild"}, needs_blood : BOOLEAN]

InitUnavailable ==
    /\ donor_alert_json = [exists |-> FALSE, parses |-> FALSE, json |-> EmptyDict]
    /\ DONOR_ALERT_CONFIG = EmptyDict
    /\ \E db \in InitDatabases :
          /\ hospitals_db = db.hospitals
          /\ patients_db = db.patients
          /\ patients_face_descriptor =
                 [id \in {db.patients[i].id : i \in 1..Len(db.patients)} |->
                     generate_demo_descriptor(Str(id))]
    /\ PATIENTS_LEGACY = PATIENTS_LEGACY_SEED
    /\ PATIENT_DESCRIPTORS_LEGACY = PATIENT_DESCRIPTORS_LEGACY_SEED
    /\ pc = "boot"
    /\ NoRequest
    /\ score_call = [called |-> FALSE]
    /\ register_calls = <<>>

NextUnavailable ==
    \/ startup_event
    \/ get_hospitals(FALSE)
    \/ get_patients(FALSE)
    \/ \E r \in UnavailableRequests : allocate_emergency(r, FALSE, FALSE)
    \/ donor_post_returns
    \/ emergency_post_returns
    \/ send_response
    \/ \E face_descriptor \in IdentifyQueries : identify_patient(face_descriptor, FALSE)
    \/ \E data \in RegisterRequests : register_patient(data, FALSE, FALSE)
    \/ send_patient_response

SpecUnavailable == InitUnavailable /\ [][NextUnavailable]_vars

-----------------------------------------------------------------------------
(* Claims about score_hospital, checked under SpecScore *)

\* The call of score_call with another hospital dict, other arguments equal.
score_of(hospital) ==
    score_hospital(hospital, score_call.patient_lat, score_call.patient_lon,
                   score_call.patient_blood_type, score_call.severity,
                   score_call.needs_blood)

\* C1: score_hospital is monotonic non-increasing in distance: a hospital
\* that differs from the scored one only in its place and is farther from
\* the patient scores no higher, within a band and across the boundaries at
\* 2, 5, 10 and 20 km.
C1_DistanceMonotonic ==
    score_call.called =>
        \A lat \in ScoreLats :
            LET farther == score_of([score_call.hospital EXCEPT !.latitude = lat])
            IN  farther.distance > score_call.result.distance
                    => farther.score <= score_call.result.score

\* C3: the score of a hospital with icu_beds_available = 0 is strictly lower
\* than the score of the same hospital with any icu_beds_available >= 1.
C3_ZeroBedsStrictlyLower ==
    (score_call.called /\ score_call.hospital.icu_beds_available = 0) =>
        \A beds \in 1..MaxBeds :
            score_of([score_call.hospital EXCEPT !.icu_beds_available = beds]).score
                > score_call.result.score

C3_Witness ==
    /\ score_call.called
    /\ score_call.hospital.icu_beds_available = 0
    /\ "icu_beds_total" \in DOMAIN score_call.hospital
    /\ score_call.hospital.icu_beds_total = 20
    /\ score_call.severity = "critical"

\* C4: a hospital dict without icu_beds_total is scored exactly like the same
\* dict with icu_beds_total = 0.
C4_MissingTotalScoredAsZero ==
    (score_call.called /\ "icu_beds_total" \notin DOMAIN score_call.hospital) =>
        score_call.result = score_of(("icu_beds_total" :> 0) @@ score_call.hospital)

-----------------------------------------------------------------------------
(* Claims about allocate_emergency, checked under Spec *)

\* The handler returned an allocation result.
Allocated == pc = "done" /\ response.status = 200

\* The score the handler's call of score_hospital gave hospitals[i].
score_at(i) ==
    score_hospital(hospitals[i], req.latitude, req.longitude, patient.blood_type,
                   req.severity, req.needs_blood).score

PostsTo(url) == { i \in 1..Len(posts) : posts[i].url = url }

AllocationResultKeys ==
    {"status", "patient", "allocated_hospital", "distance_km", "allocation_score",
     "eta_minutes", "blood_available", "donors_alerted", "donor_details",
     "emergency_notified", "hospitals_notified"}

\* C2: the allocated hospital has the maximum score over the evaluated
\* hospitals and, among the hospitals of that score, is the first in store
\* order.
C2_SelectsFirstMaximum ==
    Allocated =>
        \E i \in 1..Len(hospitals) :
            /\ response.allocated_hospital = hospitals[i]
            /\ \A j \in 1..Len(hospitals) : score_at(j) <= score_at(i)
            /\ \A j \in 1..(i - 1) : score_at(j) < score_at(i)

C2_Witness ==
    /\ Allocated
    /\ \E i, j \in 1..Len(hospitals) :
          /\ i < j
          /\ response.allocated_hospital = hospitals[i]
          /\ score_at(j) = score_at(i)
          /\ hospitals[j] # hospitals[i]

\* C5: eta_minutes is 2 * distance_km + 3 rounded down, distance_km being the
\* distance reported in the same result (in tenths of a km here).
C5_EtaFromReportedDistance ==
    Allocated =>
        /\ response.eta_minutes * 10 <= 2 * response.distance_km + 30
        /\ 2 * response.distance_km + 30 < (response.eta_minutes + 1) * 10
        /\ response.distance_km = best.distance_km

C5_Witness ==
    /\ Allocated
    /\ (2 * response.distance_km + 30) % 10 >= 5

\* C6 as claimed: the donor-alert webhook is called exactly when needs_blood
\* is true and the selected hospital's stock of the patient's blood type is
\* below 2 (a missing type counts as 0); blood_available is true exactly
\* when needs_blood is true and that stock is at least 2, and then no
\* donor-alert call is made and donors_alerted is 0.
C6_DonorAlertExactlyWhenStockLow ==
    Allocated =>
        LET units == blood_stock_of(best, patient)
        IN  /\ PostsTo("donor-alert") # {} <=> (req.needs_blood /\ units < 2)
            /\ response.blood_available <=> (req.needs_blood /\ units >= 2)
            /\ response.blood_available =>
                   (PostsTo("donor-alert") = {} /\ response.donors_alerted = 0)

\* C6 amended: the same, for a patient who has a blood type; for a patient
\* whose blood_type is empty no donor-alert call is made, blood_available is
\* false and donors_alerted is 0.
C6_DonorAlertForKnownBloodType ==
    Allocated =>
        LET units == blood_stock_of(best, patient)
            known == patient.blood_type # "" /\ patient.blood_type # None
        IN  /\ PostsTo("donor-alert") # {} <=> (req.needs_blood /\ known /\ units < 2)
            /\ response.blood_available <=> (req.needs_blood /\ known /\ units >= 2)
            /\ response.blood_available =>
                   (PostsTo("donor-alert") = {} /\ response.donors_alerted = 0)
            /\ ~known => (~response.blood_available /\ response.donors_alerted = 0)

C6_Witness ==
    /\ Allocated
    /\ req.needs_blood
    /\ patient.blood_type = "B+"
    /\ blood_stock_of(best, patient) = 1
    /\ PostsTo("donor-alert") # {}
    /\ ~response.blood_available

\* C7: when the donor-alert webhook fails (connection error, timeout,
\* non-200 status, a body that is no JSON or no JSON object), the handler
\* still returns a complete allocation result, with blood_available = false
\* and donors_alerted = 3, whether or not a workflow configuration is loaded.
C7_DonorFailureFallsBackToThree ==
    (Allocated /\ \E i \in PostsTo("donor-alert") : posts[i].outcome \in Failures) =>
        /\ DOMAIN response = AllocationResultKeys
        /\ response.blood_available = FALSE
        /\ response.donors_alerted = 3

C7_Witness ==
    /\ Allocated
    /\ \E i \in PostsTo("donor-alert") : posts[i].outcome = HttpException("connection_error")
    /\ DONOR_ALERT_CONFIG = EmptyDict
    /\ response.donors_alerted = 3

\* C8: emergency_notified is true if and only if the requested severity is
\* exactly "critical": for a critical request whatever the emergency webhook
\* does, and for any other severity no emergency call is made.
C8_EmergencyNotifiedIffCritical ==
    Allocated =>
        /\ response.emergency_notified <=> req.severity = "critical"
        /\ PostsTo("emergency-notification") # {} <=> req.severity = "critical"

C8_Witness ==
    /\ Allocated
    /\ req.severity = "critical"
    /\ \E i \in PostsTo("emergency-notification") : posts[i].outcome = HttpResponse(500, "not_json", EmptyDict)
    /\ response.emergency_notified

\* At most one POST to each webhook, the donor alert first.
PostsInOrder ==
    /\ Cardinality(PostsTo("donor-alert")) <= 1
    /\ Cardinality(PostsTo("emergency-notification")) <= 1
    /\ Len(posts) = Cardinality(PostsTo("donor-alert")) + Cardinality(PostsTo("emergency-notification"))
    /\ \A i \in PostsTo("donor-alert"), j \in PostsTo("emergency-notification") : i < j

\* A critical request whose donor-alert call has returned has gone on to the
\* emergency-notification call.
EmergencyCallNotPrevented ==
    (req.severity = "critical" /\ \E i \in PostsTo("donor-alert") : posts[i].outcome # Pending)
        => PostsTo("emergency-notification") # {}

\* C9: every allocation request terminates with a result after at most one
\* donor-alert POST and at most one emergency-notification POST, the donor
\* alert first; a failed call is not retried, and a donor-alert failure does
\* not prevent the emergency-notification call of a critical request.
C9_TerminatesWithoutRetry ==
    /\ [](pc \in {"donor_post", "emergency_post", "done"} =>
              (PostsInOrder /\ EmergencyCallNotPrevented))
    /\ (pc \in {"donor_post", "emergency_post"}) ~> Allocated

C9_Witness ==
    /\ Allocated
    /\ Len(posts) = 2
    /\ posts[1].url = "donor-alert"
    /\ posts[1].outcome = HttpException("timeout")
    /\ posts[2].url = "emergency-notification"
    /\ posts[2].outcome = HttpException("timeout")

\* The id names a patient of the patients table or of PATIENTS_LEGACY.
KnownPatientId(patient_id) ==
    \/ \E i \in 1..Len(patients_db) : Str(patients_db[i].id) = patient_id
    \/ \E i \in 1..Len(PATIENTS_LEGACY) : PATIENTS_LEGACY[i].id = patient_id

\* C10 as claimed: for a patient_id that is unknown to the store, and also
\* for one that is absent (null or empty), the handler falls back to the
\* first in-memory patient and returns an allocation result.
C10_NeverFailsOnPatientId ==
    (pc = "done" /\ ~KnownPatientId(req.patient_id)) =>
        /\ Allocated
        /\ response.patient = PATIENTS_LEGACY[1]

\* C10 amended: for a non-empty patient_id that is unknown to the store
\* (including one that is no number) the handler falls back to the first
\* in-memory patient and returns an allocation result; a null or empty
\* patient_id is rejected with status 400 "patient_id is required", and no
\* webhook is called.
C10_UnknownIdFallsBackAbsentIdRejected ==
    pc = "done" =>
        /\ (Truthy(req.patient_id) /\ ~KnownPatientId(req.patient_id)) =>
               (Allocated /\ response.patient = PATIENTS_LEGACY[1])
        /\ ~Truthy(req.patient_id) =>
               /\ response = [status |-> 400, detail |-> "patient_id is required"]
               /\ posts = <<>>

C10_Witness ==
    /\ Allocated
    /\ req.patient_id = "abc"
    /\ patients_db # <<>>
    /\ response.patient = PATIENTS_LEGACY[1]

\* C11: a request whose patient_id cannot be parsed as an integer is rejected
\* with a 4xx validation error: no hospital is scored, no webhook is called
\* and no allocation result is returned.
C11_UnparseableIdRejected ==
    (pc = "done" /\ ParseInt(req.patient_id) = ParseError) =>
        /\ response.status \in 400..499
        /\ scored_hospitals = <<>>
        /\ posts = <<>>

-----------------------------------------------------------------------------
(* Claims about identify_patient and register_patient, checked under
   SpecPatients *)

\* The query of the request being answered is null or an empty list.
NoQuery ==
    \/ req.face_descriptor.kind = "None"
    \/ IsList(req.face_descriptor) /\ req.face_descriptor.len = 0

\* C12: identify_patient with a null or empty descriptor returns
\* match_found true with the demo patient (id 5), confidence 0.95 and method
\* "demo_mode", whatever has been registered; the random fallback
\* (confidence 0.5) is used only when no in-memory patient has id 5.
C12_NoDescriptorReturnsDemoPatient ==
    (pc = "identified" /\ NoQuery) =>
        /\ response.match_found
        /\ (demo_patient(PATIENTS_LEGACY) # 0) =>
               /\ response.patient.id = "5"
               /\ response.patient = PATIENTS_LEGACY[demo_patient(PATIENTS_LEGACY)]
               /\ response.confidence = 9500
               /\ response.method = "demo_mode"
        /\ (response.method = "fallback_random") =>
               /\ demo_patient(PATIENTS_LEGACY) = 0
               /\ response.confidence = 5000

\* The demo patient is returned after registrations in the table and in
\* memory, one of which updated the demo record.
C12_Witness ==
    /\ pc = "identified" /\ NoQuery
    /\ response.method = "demo_mode"
    /\ response.patient.id = "5" /\ response.patient.age = 40
    /\ Len(patients_db) > Len(patients_data)
    /\ NewPatients = MaxNewPatients

\* C13: a descriptor that is present and non-empty but is not a list of
\* exactly 128 components gets match_found false with the validation
\* message; no candidate distance is computed and the handler returns a
\* result rather than raising.
C13_InvalidDescriptorRejected ==
    (pc = "identified" /\ ~NoQuery
        /\ ~(req.face_descriptor.kind = "list" /\ req.face_descriptor.len = 128)) =>
        /\ response = [match_found |-> FALSE,
                       message |-> "face_descriptor must be a 128-length array"]
        /\ matches = <<>>

\* A list of 127 floats is rejected while the table holds descriptors.
C13_Witness ==
    /\ pc = "identified"
    /\ req.face_descriptor = Descriptor(127, 100, 0)
    /\ patients_db # <<>>
    /\ ~response.match_found
    /\ matches = <<>>

\* The query of the request being answered is a list of 128 floats.
ValidQuery ==
    /\ DOMAIN req = {"face_descriptor"}
    /\ req.face_descriptor.kind = "list" /\ req.face_descriptor.len = 128

\* C14: for a list of 128 whose nearest candidate is the demo patient, at
\* whatever distance, identify_patient returns match_found true with that
\* patient.
C14_NearestDemoPatientAlwaysMatches ==
    (pc = "identified" /\ ValidQuery /\ demo_position(matches) = 1) =>
        /\ response.match_found
        /\ response.patient = matches[1].patient
        /\ response.patient.id = DemoId
        /\ response.distance = matches[1].distance

\* The demo patient is nearest at a distance above 100, beyond every
\* threshold of the other rules.
C14_Witness ==
    /\ pc = "identified" /\ ValidQuery
    /\ demo_position(matches) = 1
    /\ matches[1].distance > 10000
    /\ Len(matches) > 1
    /\ response.match_found /\ response.patient.id = DemoId

\* The demo patient is a candidate but not the first, its distance is below
\* 50, and the rule for the first three candidates below 12 does not apply.
DemoBelow50NotClosest ==
    /\ pc = "identified" /\ ValidQuery
    /\ demo_position(matches) > 1
    /\ matches[demo_position(matches)].distance < 5000
    /\ ~(demo_position(matches) <= 3 /\ matches[demo_position(matches)].distance < 1200)

\* (d - best_distance) / d >= 0.5 for the distance d of the demo patient
AnotherIsHalfCloser ==
    2 * (matches[demo_position(matches)].distance - matches[1].distance)
        >= matches[demo_position(matches)].distance

\* C15: in that case the demo patient is returned as the match only if
\* (d - best_distance) / d < 0.5; when another candidate is at least 50%
\* closer the demo patient is not returned as the match.
C15_DemoNotReturnedWhenAnotherIsHalfCloser ==
    (DemoBelow50NotClosest /\ AnotherIsHalfCloser) =>
        ~(response.match_found /\ response.patient.id = DemoId)

\* C15 amended: when (d - best_distance) / d < 0.5 the demo patient is
\* returned by the lenient rule; when another candidate is at least 50%
\* closer the lenient rule does not return, and the closest candidate is
\* returned if the standard rule accepts it (its distance is below the
\* threshold); if it does not, the demo patient is returned all the same,
\* by the suggestion rule (d < 100).
C15_HalfCloserDefersToStandardRule ==
    DemoBelow50NotClosest =>
        /\ response.match_found
        /\ ~AnotherIsHalfCloser =>
               /\ response.patient.id = DemoId
               /\ response.method = "photo_upload_demo_match_lenient"
        /\ (AnotherIsHalfCloser /\ 2 * matches[1].distance < match_threshold(matches)) =>
               /\ response.patient = matches[1].patient
               /\ response.method = "euclidean_distance"
        /\ (AnotherIsHalfCloser /\ 2 * matches[1].distance >= match_threshold(matches)) =>
               /\ response.patient.id = DemoId
               /\ response.method = "photo_upload_demo_match_suggestion"

\* Another candidate is at least 50% closer and is returned by the standard
\* rule.
C15_Witness ==
    /\ DemoBelow50NotClosest /\ AnotherIsHalfCloser
    /\ response.match_found
    /\ response.patient.id # DemoId
    /\ response.method = "euclidean_distance"

\* The standard rule decided the request: the demo rules did not return.
StandardRuleReached ==
    /\ pc = "identified" /\ ValidQuery /\ matches # <<>>
    /\ response.method \in {"euclidean_distance", "photo_upload_demo_match_suggestion"}

StandardRuleAccepted == response.match_found /\ response.method = "euclidean_distance"

\* a second-best candidate exists and (d2 - d1) / d2 > 0.3
SecondIsFarther ==
    /\ Len(matches) > 1
    /\ matches[2].distance > 0
    /\ 10 * (matches[2].distance - matches[1].distance) > 3 * matches[2].distance

\* The thresholds in units of 0.005, the distances being in units of 0.01:
\* 2.5 or 1.5 * d1, and 2.5 or max(2.5, 1.5 * d1).
ThresholdReplaced == IF SecondIsFarther THEN 3 * matches[1].distance ELSE 500

ThresholdExtended == IF SecondIsFarther THEN Max(500, 3 * matches[1].distance) ELSE 500

\* C16: the threshold of the standard rule is 2.5, except that it is
\* 1.5 * d1 when a second-best candidate exists and (d2 - d1) / d2 > 0.3; the
\* closest candidate is accepted exactly when d1 < threshold, with
\* confidence max(0, 1 - d1 / threshold).
C16_ThresholdIsOneAndAHalfTimesBest ==
    StandardRuleReached =>
        /\ StandardRuleAccepted <=> (2 * matches[1].distance < ThresholdReplaced)
        /\ (StandardRuleAccepted /\ ThresholdReplaced > 0) =>
               /\ response.patient = matches[1].patient
               /\ response.confidence =
                      Max(0, Round4(ThresholdReplaced - 2 * matches[1].distance,
                                    ThresholdReplaced))

\* C16 amended: the threshold is 2.5, extended to max(2.5, 1.5 * d1) when a
\* second-best candidate exists and (d2 - d1) / d2 > 0.3; the closest
\* candidate is accepted exactly when d1 < threshold, with confidence
\* max(0, 1 - d1 / threshold) rounded to 4 places.
C16_ThresholdIsExtendedNeverLowered ==
    StandardRuleReached =>
        /\ StandardRuleAccepted <=> (2 * matches[1].distance < ThresholdExtended)
        /\ StandardRuleAccepted =>
               /\ response.patient = matches[1].patient
               /\ response.distance = matches[1].distance
               /\ response.confidence =
                      Max(0, Round4(ThresholdExtended - 2 * matches[1].distance,
                                    ThresholdExtended))

\* The closest candidate is accepted at a distance above 2.5, the threshold
\* being 1.5 times that distance.
C16_Witness ==
    /\ StandardRuleReached /\ StandardRuleAccepted
    /\ SecondIsFarther
    /\ 2 * matches[1].distance > 500
    /\ response.confidence = 3333

\* C17: every result of identify_patient for a list of 128, matched by any
\* rule or not matched, has an alternatives list of at most 2 entries.
C17_AtMostTwoAlternatives ==
    (pc = "identified" /\ ValidQuery) =>
        /\ "alternatives" \in DOMAIN response
        /\ Len(response.alternatives) <= 2

\* The patients created by register_patient, as identify_patient returns
\* them: the rows after the seeded ones and the in-memory patients after
\* the initial ones.
RegisteredPatients ==
    { [patients_db[i] EXCEPT !.id = Str(patients_db[i].id)] :
          i \in (Len(patients_data) + 1)..Len(patients_db) }
      \cup { PATIENTS_LEGACY[i] :
                 i \in (Len(PATIENTS_LEGACY_SEED) + 1)..Len(PATIENTS_LEGACY) }

\* The query is the descriptor of a registered patient, who is among the
\* candidates; no other candidate has that descriptor.
QueryIsRegisteredDescriptor ==
    /\ pc = "identified" /\ ValidQuery
    /\ \E i \in 1..Len(matches) :
          /\ matches[i].patient \in RegisteredPatients
          /\ matches[i].distance = 0
          /\ \A j \in 1..Len(matches) : j # i => matches[j].distance > 0

\* C18: after register_patient created a patient with a list of 128 floats
\* v, identify_patient with v as the query returns a patient registered
\* with v as the match, with distance 0, whatever else is stored.
C18_RegisteredDescriptorIdentifiesItsPatient ==
    QueryIsRegisteredDescriptor =>
        /\ response.match_found
        /\ response.distance = 0
        /\ response.patient \in RegisteredPatients

\* C19: register_patient with a reserved demo name (Ahmad Hassan, or a name
\* containing one of its keywords) updates the demo record in place: the
\* patient returned has the id of the demo patient, and neither the table
\* nor the in-memory list gets a new record, whichever store is written.
C19_DemoNameUpdatesInPlace ==
    [][(pc = "idle" /\ pc' = "registered" /\ req'.name \in RegisterNames
           /\ is_demo_name(req'.name)) =>
           /\ response'.success
           /\ response'.patient.id = DemoId
           /\ Len(patients_db') = Len(patients_db)
           /\ Len(PATIENTS_LEGACY') = Len(PATIENTS_LEGACY)]_vars

\* A descriptor that is a list of exactly 128 components.
Has128Components(desc) == desc.kind = "list" /\ desc.len = 128

\* C20: whatever descriptors register_patient was called with (valid,
\* absent, of a wrong length, of a wrong type), every descriptor held, in
\* the table and in the in-memory map, has exactly 128 components, and every
\* in-memory patient has a descriptor.
C20_StoredDescriptorsHave128Components ==
    /\ \A id \in DOMAIN patients_face_descriptor :
          Has128Components(patients_face_descriptor[id])
    /\ \A id \in DOMAIN PATIENT_DESCRIPTORS_LEGACY :
          Has128Components(PATIENT_DESCRIPTORS_LEGACY[id])
    /\ \A i \in 1..Len(PATIENTS_LEGACY) :
          PATIENTS_LEGACY[i].id \in DOMAIN PATIENT_DESCRIPTORS_LEGACY
    /\ \A i \in 1..Len(patients_db) :
          patients_db[i].id \in DOMAIN patients_face_descriptor

\* A patient was registered in memory with a list of 3 floats, after one
\* registered in the table.
C20_Witness ==
    /\ pc = "registered"
    /\ req.face_descriptor = Descriptor(3, 100, 0)
    /\ response.success
    /\ Len(PATIENTS_LEGACY) > Len(PATIENTS_LEGACY_SEED)
    /\ response.patient = PATIENTS_LEGACY[Len(PATIENTS_LEGACY)]
    /\ Len(patients_db) > Len(patients_data)

\* C21: when register_patient stores a generated descriptor because the
\* request held no list of 128, the descriptor stored for the patient is
\* the one generated from that patient's own id, in the table, in memory
\* and in the update of the demo patient.
C21_GeneratedDescriptorSeededByOwnId ==
    [][(pc = "idle" /\ pc' = "registered" /\ response'.success
           /\ ~(req'.face_descriptor.kind = "list" /\ req'.face_descriptor.len = 128)) =>
           IF patients_db' # patients_db
           THEN patients_face_descriptor'[patients_db'[Len(patients_db')].id]
                    = generate_demo_descriptor(response'.patient.id)
           ELSE PATIENT_DESCRIPTORS_LEGACY'[response'.patient.id]
                    = generate_demo_descriptor(response'.patient.id)]_vars

-----------------------------------------------------------------------------
(* Claims about concurrent register_patient calls, checked under
   SpecConcurrent *)

\* The calls that created a patient and returned.
CreatedBy(t) ==
    /\ register_calls[t].pc = "returned"
    /\ register_calls[t].patient_id_to_update = None

\* C22: patient ids are unique under any interleaving of register_patient
\* calls on the in-memory store: no two records share an id, and the
\* descriptor held for a created patient is the one of the call that
\* created it.
C22_IdsUniqueUnderConcurrency ==
    /\ \A i, j \in 1..Len(PATIENTS_LEGACY) :
          i # j => PATIENTS_LEGACY[i].id # PATIENTS_LEGACY[j].id
    /\ \A t \in Threads :
          CreatedBy(t) =>
              PATIENT_DESCRIPTORS_LEGACY[register_calls[t].response.patient.id]
                  = register_calls[t].face_descriptor

\* The calls that updated the demo patient in place and returned.
UpdatedBy(t) ==
    /\ register_calls[t].pc = "returned"
    /\ register_calls[t].patient_id_to_update = DemoId

\* C23: when the calls that update the demo patient in place have returned,
\* its record (age, blood type, descriptor) is the complete write of one of
\* them and no mixture of fields of several.
C23_DemoRecordIsOneCompleteWrite ==
    ((\A t \in Threads : register_calls[t].pc = "returned")
        /\ (\E t \in Threads : UpdatedBy(t))) =>
        \E t \in Threads :
            /\ UpdatedBy(t)
            /\ PATIENTS_LEGACY[register_calls[t].patient].age = register_calls[t].data.age
            /\ PATIENTS_LEGACY[register_calls[t].patient].blood_type
                   = register_calls[t].data.blood_type
            /\ PATIENT_DESCRIPTORS_LEGACY[DemoId] = register_calls[t].face_descriptor

-----------------------------------------------------------------------------
(* Further claims about the patient handlers, checked under SpecPatients *)

\* A step that is one call of register_patient.

InMemoryPatients == { PATIENTS_LEGACY[i] : i \in 1..Len(PATIENTS_LEGACY) }

\* C25: with the database unavailable, or every store query raising, the
\* hospital list and the patient list are the in-memory lists; an
\* allocation with a patient id returns 200 for an in-memory patient and a
\* hospital of the in-memory list; an identification with a valid query
\* compares the in-memory patients only and returns a normal result; a
\* registration with a name succeeds with a record of the in-memory store.
\* No result is an error caused by the store.
C25_StoreFailureFallsBackToMemory ==
    /\ (pc = "listed" /\ req.list = "hospitals") =>
           response.status = 200 /\ response.body = HOSPITALS_LEGACY
    /\ (pc = "listed" /\ req.list = "patients") =>
           response.status = 200 /\ response.body = PATIENTS_LEGACY
    /\ (pc = "done" /\ Truthy(req.patient_id)) =>
           /\ response.status = 200
           /\ response.patient \in InMemoryPatients
           /\ \E i \in 1..Len(HOSPITALS_LEGACY) :
                 response.allocated_hospital = HOSPITALS_LEGACY[i]
    /\ pc = "identified" =>
           /\ "match_found" \in DOMAIN response
           /\ \A i \in 1..Len(matches) : matches[i].patient \in InMemoryPatients
           /\ (req.face_descriptor.kind = "list" /\ req.face_descriptor.len = 128) =>
                  /\ matches # <<>>
                  /\ response.match_found => response.patient \in InMemoryPatients
    /\ (pc = "registered" /\ req.name # None) =>
           /\ response.success
           /\ response.patient \in InMemoryPatients
           /\ response.patient.id \in DOMAIN PATIENT_DESCRIPTORS_LEGACY

\* An allocation returned 200 while the tables held rows that could not be
\* queried, for a patient registered in memory before.
C25_Witness ==
    /\ pc = "done"
    /\ response.status = 200
    /\ hospitals_db # <<>>
    /\ patients_db # <<>>
    /\ req.patient_id = "7"
    /\ response.patient.id = "7"

\* C26: no step of an allocation changes stored state: the hospital and
\* patient tables and the in-memory records are as before it; the list the
\* handler scored is a stored list, its beds and blood stock untouched; and
\* the returned hospital, score and distance are those score_hospital gives
\* for the request from that stored data, so that the same request with the
\* same stores returns them again.
C26_AllocationChangesNoStoredState ==
    [][/\ pc # "boot" =>
              UNCHANGED <<hospitals_db, patients_db, patients_face_descriptor,
                          PATIENTS_LEGACY, PATIENT_DESCRIPTORS_LEGACY>>
       /\ (pc' = "done" /\ response'.status = 200) =>
              /\ hospitals' \in {HOSPITALS_LEGACY, rows_as_dicts(hospitals_db)}
              /\ patient' \in InMemoryPatients \cup
                      { rows_as_dicts(patients_db)[i] : i \in 1..Len(patients_db) }
              /\ response'.patient = patient'
              /\ \E i \in 1..Len(hospitals') :
                    LET sd == score_hospital(hospitals'[i], req'.latitude, req'.longitude,
                                             patient'.blood_type, req'.severity,
                                             req'.needs_blood)
                    IN  /\ response'.allocated_hospital = hospitals'[i]
                        /\ response'.allocation_score = Round1(sd.score)
                        /\ response'.distance_km = Round1(sd.distance)
                        /\ \A j \in 1..Len(hospitals') :
                              score_hospital(hospitals'[j], req'.latitude,
                                             req'.longitude, patient'.blood_type,
                                             req'.severity, req'.needs_blood).score
                                  <= sd.score]_vars

\* An allocation from the table's rows returned after both webhooks were
\* posted, the table holding what startup left in it.
C26_Witness ==
    /\ pc = "done"
    /\ response.status = 200
    /\ Len(posts) = 2
    /\ hospitals_db # <<>>
    /\ hospitals = rows_as_dicts(hospitals_db)
    /\ hospitals # HOSPITALS_LEGACY

\* C27: a match through a demo-override rule is never a patient that
\* register_patient created under another name than Ahmad Hassan, whatever
\* id the store gave that patient.
C27_DemoOverrideOnlyForDemoPatient ==
    (/\ pc = "identified"
     /\ response.match_found
     /\ response.method \in {"photo_upload_demo_match", "photo_upload_demo_match_top3",
                              "photo_upload_demo_match_lenient",
                              "photo_upload_demo_match_ultra_lenient"}) =>
        ~(response.patient \in RegisteredPatients /\ response.patient.name # "Ahmad Hassan")

\* The in-memory records register_patient wrote, with a stored descriptor:
\* the patients it created and the initial ones it updated in place.
RegisteredInMemory ==
    { PATIENTS_LEGACY[i] :
          i \in { j \in 1..Len(PATIENTS_LEGACY) :
                     /\ PATIENTS_LEGACY[j].id \in DOMAIN PATIENT_DESCRIPTORS_LEGACY
                     /\ \/ j > Len(PATIENTS_LEGACY_SEED)
                        \/ PATIENTS_LEGACY[j] # PATIENTS_LEGACY_SEED[j] } }

\* C28: a patient registered in memory stays in use whatever the table
\* holds later: it is a candidate of every identify_patient call with a
\* valid query, and allocate_emergency with its id uses its record, whether
\* the table can be queried or not.
C28_InMemoryRecordNeverShadowed ==
    \A p \in RegisteredInMemory :
        /\ (pc = "identified" /\ ValidQuery) =>
               \E i \in 1..Len(matches) : matches[i].patient = p
        /\ \A patient_query_ok \in BOOLEAN :
               get_patient(patients_db, PATIENTS_LEGACY, p.id, patient_query_ok) = p

\* C29: a list of 128 is answered with match_found = false only when the
\* closest candidate is not below the threshold (2.5, or max(2.5, 1.5 * d1)
\* when the second is more than 30% farther) and no candidate with id 5 is
\* at a distance below 100; such a result has no suggested_patient field.
C29_NoMatchOnlyBeyondThresholdAndDemoRange ==
    (pc = "identified" /\ ValidQuery /\ ~response.match_found) =>
        /\ matches # <<>> => 2 * matches[1].distance >= ThresholdExtended
        /\ \A i \in 1..Len(matches) :
              matches[i].patient.id = "5" => matches[i].distance >= 10000
        /\ "suggested_patient" \notin DOMAIN response

\* No match: the demo patient is a candidate 100 or more away, and closer
\* candidates are beyond the threshold as well.
C29_Witness ==
    /\ pc = "identified" /\ ValidQuery /\ ~response.match_found
    /\ \E i \in 2..Len(matches) :
          matches[i].patient.id = "5" /\ matches[i].distance >= 10000
    /\ response.closest_patient = matches[1].patient.name

\* C30: when a second candidate exists and the best is more than 30% closer
\* than it, (d2 - d1) / d2 > 0.3, a list of 128 is answered with
\* match_found = true, however far the best candidate is.
C30_MuchCloserBestAlwaysMatches ==
    (pc = "identified" /\ ValidQuery /\ SecondIsFarther) => response.match_found

\* The best candidate is returned by the standard rule from far above 2.5,
\* with no candidate of id 5 within 100.
C30_Witness ==
    /\ pc = "identified" /\ ValidQuery /\ SecondIsFarther
    /\ response.match_found
    /\ response.method = "euclidean_distance"
    /\ response.patient = matches[1].patient
    /\ matches[1].distance > 5000
    /\ \A i \in 1..Len(matches) :
          matches[i].patient.id = "5" => matches[i].distance >= 10000

=============================================================================
